---- MODULE Spec2Model ----
(***************************************************************************)
(* Model of the LLM council backend: the gateway client (openrouter.py),   *)
(* the parallel fan-out built on it, and the three-stage deliberation      *)
(* pipeline (council.py).                                                  *)
(*                                                                         *)
(* Python values are modelled as tagged records so that values of          *)
(* different Python types can live in the same collection:                 *)
(*   None            [ty |-> "null"]                                       *)
(*   str             [ty |-> "str", s |-> text]                            *)
(*   int             [ty |-> "num", n |-> i]                               *)
(*   list            [ty |-> "arr", items |-> <<...>>]                     *)
(*   dict (JSON)     [ty |-> "obj", fields |-> [key |-> value]]            *)
(* A text is [raw, loads]: `loads` is what json.loads makes of it (Invalid *)
(* when it is not JSON), `raw` names the characters of a non-JSON text.    *)
(* A model identifier is a sequence of tokens, <<"a">> or                  *)
(* <<"a", ":online">>, so that the suffix test of config.py can be         *)
(* computed.                                                               *)
(***************************************************************************)
EXTENDS Integers, Sequences, FiniteSets, TLC

VARIABLES
    q_model,      \* query_model: the `model` argument
    q_transport,  \* query_model: what the HTTP round trip produces
    q_result,     \* query_model: the value returned (or the exception raised)
    fo_models,    \* query_models_parallel: the `models` argument
    fo_messages,  \* query_models_parallel: the `messages` argument
    fo_tasks,     \* query_models_parallel: one task per entry of `models`
    fo_order,     \* the task indices in the order the tasks completed
    fo_pc,        \* "idle", "running", "returned" or "raised"
    fo_result,    \* query_models_parallel: the mapping returned
    messages,     \* run_full_council: the message history passed in
    in_council,   \* run_full_council: the council_models argument
    in_chairman,  \* run_full_council: the chairman_model argument
    in_web,       \* run_full_council: the web_search_enabled argument
    pc,           \* "idle", "start", "stage1", "stage2", "stage3", "returned", "raised"
    council_models,      \* the effective council list
    chairman_model,      \* the effective chairman
    web_search_enabled,
    stage1_responses,    \* stage1_collect_responses: the mapping it got back
    stage1_results,
    stage1_errors,
    stage2_responses,    \* stage2_collect_rankings: the mapping it got back
    stage2_results,
    label_to_model,
    stage2_errors,
    stage3_response,     \* stage3_synthesize_final: what the chairman call returned
    ret,          \* what run_full_council returned, or the exception it raised
    log,          \* every query_model call issued so far: stage, model, resolved or not
    a_index,      \* _index_to_alpha_label: the `index` argument
    a_label,      \* _index_to_alpha_label: the label returned (or the exception)
    p_text,       \* parse_ranking_from_text: the `ranking_text` argument
    p_expected,   \* parse_ranking_from_text: the `expected_labels` argument
    p_result,     \* parse_ranking_from_text: the list returned (or the exception)
    r_stage2,     \* calculate_*_rankings: the `stage2_results` argument
    r_l2m,        \* calculate_*_rankings: the `label_to_model` argument
    r_aggregate,  \* calculate_aggregate_rankings: the table returned
    r_tournament, \* calculate_tournament_rankings: the table returned
    s_errors,     \* _summarize_errors: the `errors` argument
    s_summary,    \* _summarize_errors: the text returned
    o_model,      \* apply_online_variant: the `model_id` argument
    o_once,       \* apply_online_variant: what it returned
    o_twice,      \* apply_online_variant: what it returned for that result
    is_first_message,    \* send_message_stream: the conversation had no message
    title_task,   \* event_generator: "none", "running" or "cancelled"
    events,       \* event_generator: the events yielded so far
    caught,       \* event_generator: the exception its handler caught, if any
    stored,       \* storage: the messages of the conversation on disk
    m_cache,      \* models.py: the global _cache
    m_lock,       \* models.py: the task holding _cache_lock, 0 when it is free
    m_now,        \* datetime.now(), in seconds
    m_calls,      \* get_available_models: one record per calling task
    m_fetches,    \* every fetch_models_from_openrouter call issued so far
    t_configured, \* transcription.py: GROQ_API_KEY is set and groq can be imported
    t_attempts,   \* transcribe_audio: the outcome of each attempt made so far
    t_result      \* transcribe_audio: what the decorated call returned or raised

queryVars == <<q_model, q_transport, q_result>>
fanoutVars == <<fo_models, fo_messages, fo_tasks, fo_order, fo_pc, fo_result>>
inputVars == <<messages, in_council, in_chairman, in_web>>
localVars ==
    <<council_models, chairman_model, web_search_enabled, stage1_responses,
      stage1_results, stage1_errors, stage2_responses, stage2_results,
      label_to_model, stage2_errors, stage3_response>>
labelVars == <<a_index, a_label>>
parseVars == <<p_text, p_expected, p_result>>
rankVars == <<r_stage2, r_l2m, r_aggregate, r_tournament>>
summaryVars == <<s_errors, s_summary>>
onlineVars == <<o_model, o_once, o_twice>>
streamVars == <<is_first_message, title_task, events, caught, stored>>
cacheVars == <<m_cache, m_lock, m_now, m_calls, m_fetches>>
transcribeVars == <<t_configured, t_attempts, t_result>>
sideVars == <<cacheVars, transcribeVars>>
pureVars == <<labelVars, parseVars, rankVars, summaryVars, onlineVars>>
vars ==
    <<q_model, q_transport, q_result, fo_models, fo_messages, fo_tasks, fo_order,
      fo_pc, fo_result, messages, in_council, in_chairman, in_web, pc,
      council_models, chairman_model, web_search_enabled, stage1_responses,
      stage1_results, stage1_errors, stage2_responses, stage2_results,
      label_to_model, stage2_errors, stage3_response, ret, log, a_index, a_label, p_text, p_expected, p_result,
      r_stage2, r_l2m, r_aggregate, r_tournament, s_errors, s_summary,
      o_model, o_once, o_twice, is_first_message, title_task, events, caught,
      stored, m_cache, m_lock, m_now, m_calls, m_fetches, t_configured,
      t_attempts, t_result>>

(***************************************************************************)
(* Python / JSON values                                                    *)
(***************************************************************************)
Invalid == [ty |-> "invalid"]
JNull == [ty |-> "null"]
JStr(t) == [ty |-> "str", s |-> t]
JNum(i) == [ty |-> "num", n |-> i]
JArr(items) == [ty |-> "arr", items |-> items]
JObj(f) == [ty |-> "obj", fields |-> f]

\* a text that is not a JSON document
Str(raw) == [raw |-> raw, loads |-> Invalid]
\* the text that serialises the JSON value v
JsonText(v) == [raw |-> "<json>", loads |-> v]

Returned(v) == [exc |-> "none", v |-> v]
Raised(e) == [exc |-> e, v |-> JNull]

\* v[key] for a string key
Subscript(v, key) ==
    IF v.ty = "obj"
    THEN IF key \in DOMAIN v.fields THEN Returned(v.fields[key]) ELSE Raised("KeyError")
    ELSE Raised("TypeError")

\* v[0]
Index0(v) ==
    IF v.ty = "arr"
    THEN IF Len(v.items) > 0 THEN Returned(v.items[1]) ELSE Raised("IndexError")
    ELSE IF v.ty = "obj" THEN Raised("KeyError")
    ELSE Raised("TypeError")

\* v.get(key): the value, None when the key is missing
DictGet(v, key) ==
    IF v.ty = "obj"
    THEN IF key \in DOMAIN v.fields THEN Returned(v.fields[key]) ELSE Returned(JNull)
    ELSE Raised("AttributeError")

(***************************************************************************)
(* openrouter.py                                                           *)
(***************************************************************************)
NoStatus == 0
NoModel == <<>>
DefaultTimeout == 120

\* a message text: the fixed wording and the values formatted into it
ErrorMessage(tmpl, model, num) == [tmpl |-> tmpl, model |-> model, num |-> num]

ModelQueryError(error_type, message, status_code, model) ==
    [tag |-> "error", error_type |-> error_type, message |-> message,
     status_code |-> status_code, model |-> model]

Success(content, reasoning_details) ==
    [tag |-> "success", content |-> content, reasoning_details |-> reasoning_details]

Raise(exc, status) == [tag |-> "raise", exc |-> exc, status |-> status]

to_dict(e) ==
    [error_type |-> e.error_type, message |-> e.message,
     status_code |-> e.status_code, model |-> e.model]

is_error(response) == response.tag = "error"

\* response.raise_for_status() of httpx: only a 2xx status passes
IsSuccessStatus(status) == status >= 200 /\ status <= 299

\* a status handled by its own branch is still classified (wrongly) when
\* the last test reads == 500 instead of >= 500
StatusErrorTypeOnly500(status) ==
    IF status = 401 THEN "auth"
    ELSE IF status = 402 THEN "payment"
    ELSE IF status = 404 THEN "not_found"
    ELSE IF status = 429 THEN "rate_limit"
    ELSE IF status = 500 THEN "server"
    ELSE "none"

\* the if/elif chain over response.status_code: the kind, "none" when no
\* branch is taken
StatusErrorType(status) ==
    IF status = 401 THEN "auth"
    ELSE IF status = 402 THEN "payment"
    ELSE IF status = 404 THEN "not_found"
    ELSE IF status = 429 THEN "rate_limit"
    ELSE IF status >= 500 THEN "server"
    ELSE "none"

StatusErrorMessage(status, model) ==
    IF status = 401 THEN ErrorMessage("Invalid API key", NoModel, NoStatus)
    ELSE IF status = 402 THEN ErrorMessage("Payment required", NoModel, NoStatus)
    ELSE IF status = 404 THEN ErrorMessage("Model not found", model, NoStatus)
    ELSE IF status = 429 THEN ErrorMessage("Rate limit exceeded", NoModel, NoStatus)
    ELSE ErrorMessage("OpenRouter server error", NoModel, status)

\* the body of the try block: a returned value or the exception it raises
QueryModelTry(model, tr) ==
    IF tr.t = "timeout" THEN Raise("TimeoutException", NoStatus)
    ELSE IF tr.t = "transport_error" THEN Raise("ConnectError", NoStatus)
    ELSE IF StatusErrorType(tr.status) # "none"
    THEN ModelQueryError(StatusErrorType(tr.status),
                         StatusErrorMessage(tr.status, model), tr.status, model)
    ELSE IF ~IsSuccessStatus(tr.status) THEN Raise("HTTPStatusError", tr.status)
    ELSE IF tr.body = Invalid THEN Raise("JSONDecodeError", NoStatus)
    ELSE LET choices == Subscript(tr.body, "choices")
             first == Index0(choices.v)
             message == Subscript(first.v, "message")
             content == DictGet(message.v, "content")
             reasoning == DictGet(message.v, "reasoning_details")
         IN  IF choices.exc # "none" THEN Raise(choices.exc, NoStatus)
             ELSE IF first.exc # "none" THEN Raise(first.exc, NoStatus)
             ELSE IF message.exc # "none" THEN Raise(message.exc, NoStatus)
             ELSE IF content.exc # "none" THEN Raise(content.exc, NoStatus)
             ELSE Success(content.v, reasoning.v)

\* query_model without its last handler: an unexpected exception escapes
QueryModelNoCatchAll(model, tr, timeout) ==
    LET r == QueryModelTry(model, tr)
    IN  IF r.tag # "raise" THEN r
        ELSE IF r.exc = "TimeoutException"
        THEN ModelQueryError("timeout", ErrorMessage("Request timed out", NoModel, timeout),
                             NoStatus, model)
        ELSE IF r.exc = "HTTPStatusError"
        THEN ModelQueryError("unknown", ErrorMessage("HTTP error", NoModel, r.status),
                             r.status, model)
        ELSE r

query_model(model, tr, timeout) ==
    LET r == QueryModelTry(model, tr)
    IN  IF r.tag # "raise" THEN r
        ELSE IF r.exc = "TimeoutException"
        THEN ModelQueryError("timeout", ErrorMessage("Request timed out", NoModel, timeout),
                             NoStatus, model)
        ELSE IF r.exc = "HTTPStatusError"
        THEN ModelQueryError("unknown", ErrorMessage("HTTP error", NoModel, r.status),
                             r.status, model)
        ELSE ModelQueryError("unknown", ErrorMessage(r.exc, NoModel, NoStatus), NoStatus, model)

(***************************************************************************)
(* Inputs of the gateway client                                            *)
(***************************************************************************)
ModelA == <<"a">>
ModelB == <<"b">>
ModelAOnline == <<"a", ":online">>
RawModels == {ModelA, ModelB, ModelAOnline}

AnswerText == Str("answer")

MessageOf(content) == JObj([message |-> content])
ChoicesOf(first) == JObj([choices |-> JArr(<<first>>)])

\* the shapes a response body can take once read as JSON
Bodies ==
    { Invalid,
      JNull,
      JArr(<<>>),
      JObj(<<>>),
      JObj([choices |-> JArr(<<>>)]),
      JObj([choices |-> JObj(<<>>)]),
      ChoicesOf(JObj(<<>>)),
      ChoicesOf(MessageOf(JStr(AnswerText))),
      ChoicesOf(MessageOf(JObj(<<>>))),
      ChoicesOf(MessageOf(JObj([content |-> JNull]))),
      ChoicesOf(MessageOf(JObj([content |-> JStr(AnswerText)]))),
      ChoicesOf(MessageOf(JObj([content |-> JStr(AnswerText),
                                reasoning_details |-> JArr(<<>>)]))) }

HttpResponse(status, body) == [t |-> "response", status |-> status, body |-> body]
TransportTimeout == [t |-> "timeout", status |-> NoStatus, body |-> Invalid]
TransportError == [t |-> "transport_error", status |-> NoStatus, body |-> Invalid]

StatusCodes == 100..599

AllTransports ==
    {TransportTimeout, TransportError}
        \cup {HttpResponse(s, b) : s \in StatusCodes, b \in Bodies}

NoResult == [tag |-> "none"]

(***************************************************************************)
(* Python dict: the entries in insertion order, one per key                *)
(***************************************************************************)
DictKeys(d) == [i \in 1..Len(d) |-> d[i].k]
DictKeySet(d) == {d[i].k : i \in 1..Len(d)}
DictHas(d, k) == \E i \in 1..Len(d) : d[i].k = k
DictAt(d, k) == d[CHOOSE i \in 1..Len(d) : d[i].k = k].v

\* a list of pairs, which keeps both entries of a repeated key
DictSetAppend(d, k, v) == Append(d, [k |-> k, v |-> v])

\* d[k] = v: a new key goes last, an existing key keeps its place
DictSet(d, k, v) ==
    IF DictHas(d, k)
    THEN [i \in 1..Len(d) |-> IF d[i].k = k THEN [k |-> k, v |-> v] ELSE d[i]]
    ELSE Append(d, [k |-> k, v |-> v])

Min(a, b) == IF a <= b THEN a ELSE b

RECURSIVE DictZipN(_, _, _)
DictZipN(ks, vs, n) ==
    IF n = 0 THEN <<>> ELSE DictSet(DictZipN(ks, vs, n - 1), ks[n], vs[n])

\* dict(zip(ks, vs, strict=False))
DictZip(ks, vs) == DictZipN(ks, vs, Min(Len(ks), Len(vs)))

(***************************************************************************)
(* config.py                                                               *)
(***************************************************************************)
OnlineSuffix == ":online"

\* the suffix is appended without looking at the identifier
ApplyOnlineAlways(model_id) ==
    IF model_id = <<>> THEN model_id ELSE Append(model_id, OnlineSuffix)

apply_online_variant(model_id) ==
    IF model_id = <<>> THEN model_id
    ELSE IF model_id[Len(model_id)] = OnlineSuffix THEN model_id
    ELSE Append(model_id, OnlineSuffix)

\* the same leaving the chairman as configured
GetEffectiveCouncilOnly(council, chairman, web) ==
    [council_models |->
         IF web THEN [i \in 1..Len(council) |-> apply_online_variant(council[i])]
         ELSE council,
     chairman_model |-> chairman,
     web_search_enabled |-> web]

get_effective_models(council, chairman, web) ==
    [council_models |->
         IF web THEN [i \in 1..Len(council) |-> apply_online_variant(council[i])]
         ELSE council,
     chairman_model |-> IF web THEN apply_online_variant(chairman) ELSE chairman,
     web_search_enabled |-> web]

(***************************************************************************)
(* council.py: labels and the ranking parser                               *)
(***************************************************************************)
Letters ==
    <<"A", "B", "C", "D", "E", "F", "G", "H", "I", "J", "K", "L", "M",
      "N", "O", "P", "Q", "R", "S", "T", "U", "V", "W", "X", "Y", "Z">>

Reverse(seq) == [i \in 1..Len(seq) |-> seq[Len(seq) + 1 - i]]

RECURSIVE JoinStr(_)
JoinStr(parts) ==
    IF parts = <<>> THEN "" ELSE Head(parts) \o JoinStr(Tail(parts))

\* the while loop: one letter per pass, least significant first
RECURSIVE AlphaLoop(_, _)
AlphaLoop(current, label) ==
    LET quotient == current \div 26
        remainder == current % 26
        next == Append(label, Letters[remainder + 1])
    IN  IF quotient = 0 THEN next ELSE AlphaLoop(quotient - 1, next)

\* the same without reversed(): least significant letter first
IndexToAlphaLabelUnreversed(index) ==
    IF index < 0 THEN Raised("ValueError")
    ELSE Returned(JoinStr(AlphaLoop(index, <<>>)))

\* the label returned, or the ValueError raised for a negative index
_index_to_alpha_label(index) ==
    IF index < 0 THEN Raised("ValueError")
    ELSE Returned(JoinStr(Reverse(AlphaLoop(index, <<>>))))

\* f"Response {label}"
ResponseLabel(label) == Str("Response " \o label)

NoExpected == [given |-> FALSE, labels |-> {}]
Expected(labels) == [given |-> TRUE, labels |-> labels]

SeqToSet(seq) == {seq[i] : i \in 1..Len(seq)}

\* json.loads(text): only a str can be loaded, and not every str is JSON
JsonLoads(text) ==
    IF text.ty # "str" THEN Raised("TypeError")
    ELSE IF text.s.loads = Invalid THEN Raised("JSONDecodeError")
    ELSE Returned(text.s.loads)

\* the same accepting any ranking made of expected labels only
ExpectedMatchesSubset(labels, expected_labels) ==
    expected_labels.given => SeqToSet(labels) \subseteq expected_labels.labels

\* the two checks made when expected_labels is not None
ExpectedMatches(labels, expected_labels) ==
    expected_labels.given =>
        /\ Len(labels) = Cardinality(expected_labels.labels)
        /\ SeqToSet(labels) = expected_labels.labels

\* the same without the len(numbered) != len(set(numbered)) check
ParseRankingNoDuplicateCheck(ranking_text, expected_labels) ==
    LET payload == JsonLoads(ranking_text)
        numbered == DictGet(payload.v, "final_ranking").v
        labels == [i \in 1..Len(numbered.items) |-> numbered.items[i].s]
    IN  IF payload.exc = "JSONDecodeError" THEN Returned(<<>>)
        ELSE IF payload.exc # "none" THEN Raised(payload.exc)
        ELSE IF payload.v.ty # "obj" THEN Returned(<<>>)
        ELSE IF numbered.ty # "arr" THEN Returned(<<>>)
        ELSE IF \E i \in 1..Len(numbered.items) : numbered.items[i].ty # "str"
        THEN Returned(<<>>)
        ELSE IF ~ExpectedMatches(labels, expected_labels) THEN Returned(<<>>)
        ELSE Returned(labels)

\* the value returned (a list of labels), or the exception that escapes
parse_ranking_from_text(ranking_text, expected_labels) ==
    LET payload == JsonLoads(ranking_text)
        numbered == DictGet(payload.v, "final_ranking").v
        labels == [i \in 1..Len(numbered.items) |-> numbered.items[i].s]
    IN  IF payload.exc = "JSONDecodeError" THEN Returned(<<>>)
        ELSE IF payload.exc # "none" THEN Raised(payload.exc)
        ELSE IF payload.v.ty # "obj" THEN Returned(<<>>)
        ELSE IF numbered.ty # "arr" THEN Returned(<<>>)
        ELSE IF \E i \in 1..Len(numbered.items) : numbered.items[i].ty # "str"
        THEN Returned(<<>>)
        ELSE IF Len(labels) # Cardinality(SeqToSet(labels)) THEN Returned(<<>>)
        ELSE IF ~ExpectedMatches(labels, expected_labels) THEN Returned(<<>>)
        ELSE Returned(labels)

(***************************************************************************)
(* council.py: the stages                                                  *)
(***************************************************************************)
FmtStr(raw, args) == [raw |-> raw, loads |-> Invalid, args |-> args]

\* a timed-out call is not taken for an error
FailuresNoTimeout(responses) ==
    SelectSeq(responses, LAMBDA e : is_error(e.v) /\ e.v.error_type # "timeout")

Failures(responses) == SelectSeq(responses, LAMBDA e : is_error(e.v))
Successes(responses) == SelectSeq(responses, LAMBDA e : ~is_error(e.v))

\* the errors list built by the loop over responses.items()
StageErrors(responses) ==
    [i \in 1..Len(Failures(responses)) |-> to_dict(Failures(responses)[i].v)]

\* the stage1_results list built by the loop over responses.items()
Stage1Results(responses) ==
    [i \in 1..Len(Successes(responses)) |->
        [model |-> Successes(responses)[i].k,
         response |-> Successes(responses)[i].v.content]]

\* the same with range(1, len(stage1_results) + 1)
LabelsFromOne(stage1) == [i \in 1..Len(stage1) |-> _index_to_alpha_label(i).v]

\* labels = [_index_to_alpha_label(i) for i in range(len(stage1_results))]
Labels(stage1) == [i \in 1..Len(stage1) |-> _index_to_alpha_label(i - 1).v]

\* label_to_model = {f"Response {label}": result["model"] for ...}
LabelToModel(stage1) ==
    DictZip([i \in 1..Len(stage1) |-> ResponseLabel(Labels(stage1)[i])],
            [i \in 1..Len(stage1) |-> stage1[i].model])

\* the ranking prompt: the query, every labelled response, the allowed labels
RankingPrompt(user_query, stage1) ==
    [tmpl |-> "ranking",
     query |-> user_query,
     responses |-> [i \in 1..Len(stage1) |->
                      [label |-> ResponseLabel(Labels(stage1)[i]),
                       response |-> stage1[i].response]],
     allowed |-> DictKeys(LabelToModel(stage1))]

UserMessage(content) == [role |-> "user", content |-> content]

\* the parse of the i-th successful stage-2 response
Stage2Parse(responses, l2m, i) ==
    parse_ranking_from_text(Successes(responses)[i].v.content,
                            Expected(DictKeySet(l2m)))

\* the exception that escapes the loop over the stage-2 responses, if any
Stage2Raises(responses, l2m) ==
    \E i \in 1..Len(Successes(responses)) : Stage2Parse(responses, l2m, i).exc # "none"

Stage2Results(responses, l2m) ==
    [i \in 1..Len(Successes(responses)) |->
        [model |-> Successes(responses)[i].k,
         ranking |-> Successes(responses)[i].v.content,
         parsed_ranking |-> Stage2Parse(responses, l2m, i).v]]

(***************************************************************************)
(* council.py: the two rank aggregations                                   *)
(* average_rank is kept in hundredths and win_percentage in thousandths,   *)
(* the precision round() leaves them with.                                 *)
(***************************************************************************)
\* Python's order on str, for the model identifiers used here
NameOrder == <<"a", "b", "c", "d", "e">>

NameIndex(name) == CHOOSE i \in 1..Len(NameOrder) : NameOrder[i] = name

\* model_a < model_b: by the name, and a name sorts before the same name
\* with a suffix
ModelLess(x, y) ==
    \/ NameIndex(x[1]) < NameIndex(y[1])
    \/ x[1] = y[1] /\ Len(x) < Len(y)

\* bool(ranking_text)
Truthy(v) == v.ty = "str" /\ v.s.raw # ""

\* the same with the fallback parsing without expected labels
ParsedRankingLoose(ranking, l2m) ==
    IF ranking.parsed_ranking # <<>> THEN ranking.parsed_ranking
    ELSE IF Truthy(ranking.ranking)
    THEN parse_ranking_from_text(ranking.ranking, NoExpected).v
    ELSE <<>>

\* parsed_ranking: the stored one, else the ranking text parsed again
ParsedRanking(ranking, l2m) ==
    IF ranking.parsed_ranking # <<>> THEN ranking.parsed_ranking
    ELSE IF Truthy(ranking.ranking)
    THEN parse_ranking_from_text(ranking.ranking, Expected(DictKeySet(l2m))).v
    ELSE <<>>

\* (model, position) for every label of one ranking found in label_to_model,
\* positions counted from `start`
RankingVotes(parsed, l2m, start) ==
    LET known == SelectSeq([p \in 1..Len(parsed) |-> p],
                           LAMBDA p : DictHas(l2m, parsed[p]))
    IN  [j \in 1..Len(known) |->
            [model |-> DictAt(l2m, parsed[known[j]]),
             position |-> known[j] - 1 + start]]

RECURSIVE Flatten(_)
Flatten(seqs) == IF seqs = <<>> THEN <<>> ELSE Head(seqs) \o Flatten(Tail(seqs))

\* model_positions[model_name].append(position), vote after vote
RECURSIVE AppendVotes(_, _)
AppendVotes(votes, acc) ==
    IF votes = <<>> THEN acc
    ELSE LET vote == Head(votes)
             sofar == IF DictHas(acc, vote.model) THEN DictAt(acc, vote.model) ELSE <<>>
         IN  AppendVotes(Tail(votes),
                         DictSet(acc, vote.model, Append(sofar, vote.position)))

\* the defaultdict(list) after the loop over stage2_results
AggregatePositions(stage2, l2m) ==
    AppendVotes(Flatten([i \in 1..Len(stage2) |->
                            RankingVotes(ParsedRanking(stage2[i], l2m), l2m, 1)]),
                <<>>)

RECURSIVE Sum(_)
Sum(seq) == IF seq = <<>> THEN 0 ELSE Head(seq) + Sum(Tail(seq))

\* the same cutting the further digits off
RoundDivTruncate(num, den) == num \div den

\* round(num / den, digits) as an integer count of 10^-digits, num >= 0.
\* (No quotient computed here falls halfway between two such values with
\* fewer than 8 positions or matchups, so the tie rule never applies.)
RoundDiv(num, den) == (2 * num + den) \div (2 * den)

KeyLess(a, b) == a[1] < b[1] \/ (a[1] = b[1] /\ a[2] < b[2])

\* list.sort(key=...): ascending by key, equal keys keep their order
StableSort(seq, keys) ==
    LET place(i) == 1 + Cardinality({j \in 1..Len(seq) :
                                        \/ KeyLess(keys[j], keys[i])
                                        \/ keys[j] = keys[i] /\ j < i})
    IN  [p \in 1..Len(seq) |-> seq[CHOOSE i \in 1..Len(seq) : place(i) = p]]

\* the same sorted by rankings_count
AggregateSortByCount(stage2, l2m) ==
    LET positions == AggregatePositions(stage2, l2m)
        aggregate == [k \in 1..Len(positions) |->
                        [model |-> positions[k].k,
                         average_rank |-> RoundDiv(100 * Sum(positions[k].v),
                                                   Len(positions[k].v)),
                         rankings_count |-> Len(positions[k].v)]]
    IN  StableSort(aggregate,
                   <<>> \o [k \in 1..Len(aggregate) |-> <<aggregate[k].rankings_count, 0>>])

calculate_aggregate_rankings(stage2, l2m) ==
    LET positions == AggregatePositions(stage2, l2m)
        aggregate == [k \in 1..Len(positions) |->
                        [model |-> positions[k].k,
                         average_rank |-> RoundDiv(100 * Sum(positions[k].v),
                                                   Len(positions[k].v)),
                         rankings_count |-> Len(positions[k].v)]]
    IN  StableSort(aggregate,
                   <<>> \o [k \in 1..Len(aggregate) |-> <<aggregate[k].average_rank, 0>>])

\* model_positions[model_name] = position, label after label
RECURSIVE SetVotes(_, _)
SetVotes(votes, acc) ==
    IF votes = <<>> THEN acc
    ELSE SetVotes(Tail(votes), DictSet(acc, Head(votes).model, Head(votes).position))

\* the model_positions dict of one ranker
RankedPositions(ranking, l2m) ==
    SetVotes(RankingVotes(ParsedRanking(ranking, l2m), l2m, 0), <<>>)

\* the model_positions dict of every ranker, in turn
AllRankedPositions(stage2, l2m) ==
    <<>> \o [i \in 1..Len(stage2) |-> RankedPositions(stage2[i], l2m)]

\* the same with the two sides of a pair exchanged
PairwiseWinsSwapped(ranked, model_a, model_b, side) ==
    Cardinality({i \in 1..Len(ranked) :
        /\ DictHas(ranked[i], model_a)
        /\ DictHas(ranked[i], model_b)
        /\ IF side = "a"
           THEN DictAt(ranked[i], model_b) < DictAt(ranked[i], model_a)
           ELSE DictAt(ranked[i], model_a) < DictAt(ranked[i], model_b)})

\* pairwise_wins[(model_a, model_b, side)] for model_a < model_b
PairwiseWins(ranked, model_a, model_b, side) ==
    Cardinality({i \in 1..Len(ranked) :
        /\ DictHas(ranked[i], model_a)
        /\ DictHas(ranked[i], model_b)
        /\ IF side = "a"
           THEN DictAt(ranked[i], model_a) < DictAt(ranked[i], model_b)
           ELSE DictAt(ranked[i], model_b) < DictAt(ranked[i], model_a)})

\* the sub-wins of model x over model y, read under the pair's sorted key
SubWins(ranked, x, y) ==
    IF x = y THEN 0
    ELSE IF ModelLess(x, y)
    THEN PairwiseWins(ranked, x, y, "a")
    ELSE PairwiseWins(ranked, y, x, "b")

\* SubWins for every two entries of `models`, by their indices
SubWinsTable(ranked, models) ==
    <<>> \o [x \in 1..Len(models) |->
                <<>> \o [y \in 1..Len(models) |-> SubWins(ranked, models[x], models[y])]]

\* the same with an equal split never counted as a tie
ModelStatsNoTies(sub, k) ==
    LET others == (1..Len(sub)) \ {k}
    IN  [wins |-> Cardinality({o \in others : sub[k][o] > sub[o][k]}),
         losses |-> Cardinality({o \in others : sub[o][k] > sub[k][o]}),
         ties |-> 0]

\* the same with an equal split counted as a win for both models
ModelStatsTieWins(sub, k) ==
    LET others == (1..Len(sub)) \ {k}
    IN  [wins |-> Cardinality({o \in others :
                                  sub[k][o] >= sub[o][k] /\ (sub[k][o] > 0 \/ sub[o][k] > 0)}),
         losses |-> Cardinality({o \in others : sub[o][k] > sub[k][o]}),
         ties |-> 0]

\* model_stats[models[k]] after the loop over the pairs of models
ModelStats(sub, k) ==
    LET others == (1..Len(sub)) \ {k}
    IN  [wins |-> Cardinality({o \in others : sub[k][o] > sub[o][k]}),
         losses |-> Cardinality({o \in others : sub[o][k] > sub[k][o]}),
         ties |-> Cardinality({o \in others :
                                  sub[k][o] = sub[o][k] /\ (sub[k][o] > 0 \/ sub[o][k] > 0)})]

\* the same with the ties left out of the percentage
TournamentEntryNoTies(model, stats) ==
    LET total_matchups == stats.wins + stats.losses + stats.ties
    IN  [model |-> model,
         wins |-> stats.wins,
         losses |-> stats.losses,
         ties |-> stats.ties,
         win_percentage |-> IF total_matchups > 0
                            THEN RoundDiv(1000 * stats.wins, total_matchups)
                            ELSE 0,
         total_matchups |-> total_matchups]

\* one row of the tournament table
TournamentEntry(model, stats) ==
    LET total_matchups == stats.wins + stats.losses + stats.ties
    IN  [model |-> model,
         wins |-> stats.wins,
         losses |-> stats.losses,
         ties |-> stats.ties,
         win_percentage |-> IF total_matchups > 0
                            THEN RoundDiv(1000 * (2 * stats.wins + stats.ties),
                                          2 * total_matchups)
                            ELSE 0,
         total_matchups |-> total_matchups]

NoStats == [wins |-> 0, losses |-> 0, ties |-> 0]

DictValues(d) == {d[i].v : i \in 1..Len(d)}

\* the orders list(set(...)) can give the elements of a set
RECURSIVE Orderings(_)
Orderings(S) ==
    IF S = {} THEN {<<>>}
    ELSE UNION {{<<x>> \o rest : rest \in Orderings(S \ {x})} : x \in S}

\* the same built from the models that appear in a parsed ranking only
TournamentModelsVotedOnly(ranked, l2m) ==
    {m \in DictValues(l2m) : \E i \in 1..Len(ranked) : DictHas(ranked[i], m)}

\* the models the table is built from: set(label_to_model.values())
TournamentModels(ranked, l2m) == DictValues(l2m)

\* the same sorted by win_percentage only, higher first
TournamentSortKeyNoLosses(entry) == <<0 - entry.win_percentage, 0>>

\* key=lambda x: (-x["win_percentage"], x["losses"])
TournamentSortKey(entry) == <<0 - entry.win_percentage, entry.losses>>

\* the table for one order `models` of list(set(...)), given each model's row
TournamentTable(models, row) ==
    LET results == <<>> \o [k \in 1..Len(models) |-> row[models[k]]]
    IN  IF Len(models) < 2
        THEN [k \in 1..Len(models) |-> TournamentEntry(models[k], NoStats)]
        ELSE StableSort(results,
                        <<>> \o [k \in 1..Len(results) |-> TournamentSortKey(results[k])])

\* The tables calculate_tournament_rankings can return: one for each order
\* list(set(label_to_model.values())) can come in.  The loop over the pairs
\* visits every unordered pair of models once whatever that order is, so
\* the row of a model is the same for all of them.
calculate_tournament_rankings(stage2, l2m) ==
    LET ranked == AllRankedPositions(stage2, l2m)
        universe == TournamentModels(ranked, l2m)
        listed == CHOOSE order \in Orderings(universe) : TRUE
        sub == SubWinsTable(ranked, listed)
        rows == <<>> \o [k \in 1..Len(listed) |->
                            TournamentEntry(listed[k], ModelStats(sub, k))]
        row == [m \in universe |-> rows[CHOOSE k \in 1..Len(listed) : listed[k] = m]]
    IN  {TournamentTable(models, row) : models \in Orderings(universe)}

\* the same with the fallback text of an untyped failure
Stage3ResultGenericText(chairman, response) ==
    IF is_error(response)
    THEN [model |-> chairman,
          response |-> JStr(Str("Error: Unable to generate final synthesis.")),
          error |-> to_dict(response)]
    ELSE [model |-> chairman, response |-> response.content]

\* the value of stage3_synthesize_final for the chairman's outcome
Stage3Result(chairman, response) ==
    IF is_error(response)
    THEN [model |-> chairman,
          response |-> JStr(FmtStr("Error: ", to_dict(response).message)),
          error |-> to_dict(response)]
    ELSE [model |-> chairman, response |-> response.content]

Stage3Errors(response) ==
    IF is_error(response) THEN <<to_dict(response)>> ELSE <<>>

OfType(errors, kind) == SelectSeq(errors, LAMBDA e : e.error_type = kind)

Fragment(text, n, models) == [text |-> text, n |-> n, models |-> models]

MaybeFragment(present, fragment) == IF present THEN <<fragment>> ELSE <<>>

\* the same rendering one fragment for every error of a counted kind
SummarizePerError(errors) ==
    LET PerError(kind, text) ==
            [i \in 1..Len(OfType(errors, kind)) |-> Fragment(text, 1, <<>>)]
        summaries ==
            MaybeFragment(OfType(errors, "auth") # <<>>,
                          Fragment("API key issue", 0, <<>>))
            \o MaybeFragment(OfType(errors, "payment") # <<>>,
                          Fragment("Payment required", 0, <<>>))
            \o PerError("rate_limit", "model(s) rate limited")
            \o MaybeFragment(OfType(errors, "not_found") # <<>>,
                          Fragment("Model(s) not found", 0,
                                   [i \in 1..Len(OfType(errors, "not_found")) |->
                                       OfType(errors, "not_found")[i].model]))
            \o PerError("timeout", "model(s) timed out")
            \o MaybeFragment(OfType(errors, "server") # <<>>,
                          Fragment("OpenRouter server error", 0, <<>>))
    IN  IF errors = <<>> \/ summaries = <<>>
        THEN <<Fragment("Please try again.", 0, <<>>)>>
        ELSE summaries

\* the fragments of the summary in the order they are appended, or the
\* fallback sentence
_summarize_errors(errors) ==
    LET summaries ==
            MaybeFragment(OfType(errors, "auth") # <<>>,
                          Fragment("API key issue", 0, <<>>))
            \o MaybeFragment(OfType(errors, "payment") # <<>>,
                          Fragment("Payment required", 0, <<>>))
            \o MaybeFragment(OfType(errors, "rate_limit") # <<>>,
                          Fragment("model(s) rate limited",
                                   Len(OfType(errors, "rate_limit")), <<>>))
            \o MaybeFragment(OfType(errors, "not_found") # <<>>,
                          Fragment("Model(s) not found", 0,
                                   [i \in 1..Len(OfType(errors, "not_found")) |->
                                       OfType(errors, "not_found")[i].model]))
            \o MaybeFragment(OfType(errors, "timeout") # <<>>,
                          Fragment("model(s) timed out",
                                   Len(OfType(errors, "timeout")), <<>>))
            \o MaybeFragment(OfType(errors, "server") # <<>>,
                          Fragment("OpenRouter server error", 0, <<>>))
    IN  IF errors = <<>> \/ summaries = <<>>
        THEN <<Fragment("Please try again.", 0, <<>>)>>
        ELSE summaries

\* sep.join(parts)
RECURSIVE JoinWith(_, _)
JoinWith(sep, parts) ==
    IF parts = <<>> THEN ""
    ELSE IF Len(parts) = 1 THEN parts[1]
    ELSE parts[1] \o sep \o JoinWith(sep, Tail(parts))

\* a model identifier as the string it is
ModelName(model) == JoinStr(model)

\* the text a fragment is appended as
Render(fragment) ==
    IF fragment.text = "API key issue"
    THEN "API key issue - please check your OPENROUTER_API_KEY"
    ELSE IF fragment.text = "Payment required"
    THEN "Payment required - please add credits to OpenRouter"
    ELSE IF fragment.text \in {"model(s) rate limited", "model(s) timed out"}
    THEN ToString(fragment.n) \o " " \o fragment.text
    ELSE IF fragment.text = "Model(s) not found"
    THEN "Model(s) not found: "
            \o JoinWith(", ", [i \in 1..Len(fragment.models) |->
                                  ModelName(fragment.models[i])])
    ELSE fragment.text

\* the str _summarize_errors returns
SummaryText(errors) ==
    JoinWith("; ", [i \in 1..Len(_summarize_errors(errors)) |->
                      Render(_summarize_errors(errors)[i])])

ErrorModel == <<"error">>

ValidationError == [error_type |-> "validation", message |-> "Empty messages list"]

Quadruple(stage1, stage2, stage3, metadata) ==
    [tag |-> "returned", stage1 |-> stage1, stage2 |-> stage2,
     stage3 |-> stage3, metadata |-> metadata]

\* the same without the validation error
EmptyHistoryReturnNoError ==
    Quadruple(<<>>, <<>>,
              [model |-> ErrorModel,
               response |-> JStr(Str("No messages provided. Please enter a query."))],
              [errors |-> [stage1 |-> <<>>, stage2 |-> <<>>, stage3 |-> <<>>]])

\* the quadruple returned for an empty history
EmptyHistoryReturn ==
    Quadruple(<<>>, <<>>,
              [model |-> ErrorModel,
               response |-> JStr(Str("No messages provided. Please enter a query."))],
              [errors |-> [stage1 |-> <<ValidationError>>, stage2 |-> <<>>,
                           stage3 |-> <<>>]])

\* the same with a fixed text in place of the summary
AllFailedReturnGeneric(errors) ==
    Quadruple(<<>>, <<>>,
              [model |-> ErrorModel,
               response |-> JStr(FmtStr("All models failed to respond. ",
                                        <<Fragment("Please try again.", 0, <<>>)>>))],
              [errors |-> [stage1 |-> errors, stage2 |-> <<>>, stage3 |-> <<>>]])

\* the quadruple returned when stage 1 has no success
AllFailedReturn(errors) ==
    Quadruple(<<>>, <<>>,
              [model |-> ErrorModel,
               response |-> JStr(FmtStr("All models failed to respond. ",
                                        _summarize_errors(errors)))],
              [errors |-> [stage1 |-> errors, stage2 |-> <<>>, stage3 |-> <<>>]])

\* the same without the test for a clean run
ErrorsAlways(e1, e2, e3) == [stage1 |-> e1, stage2 |-> e2, stage3 |-> e3]

\* metadata["errors"]: the three lists, None when all three are empty
ErrorsOrNone(e1, e2, e3) ==
    IF e1 # <<>> \/ e2 # <<>> \/ e3 # <<>>
    THEN [stage1 |-> e1, stage2 |-> e2, stage3 |-> e3]
    ELSE JNull

(***************************************************************************)
(* query_models_parallel                                                   *)
(***************************************************************************)
MaxCouncil == 2
MaxFanout == 3

PendingTask == [done |-> FALSE, result |-> NoResult]

\* tasks = [query_model(model, messages) for model in models]
CreateTasks(models) == [i \in 1..Len(models) |-> PendingTask]

\* the results taken in the order the tasks completed (asyncio.as_completed)
GatherAsCompleted(tasks, order) ==
    [i \in 1..Len(tasks) |-> tasks[order[i]].result]

\* asyncio.gather(*tasks): the results in the order of the tasks
Gather(tasks, order) == [i \in 1..Len(tasks) |-> tasks[i].result]

TaskRaised(tasks) == \E i \in 1..Len(tasks) : tasks[i].done /\ tasks[i].result.tag = "raise"

\* a gather that stops waiting at the first ModelQueryError
JoinReadyFailFast(tasks) ==
    \/ \A i \in 1..Len(tasks) : tasks[i].done
    \/ \E i \in 1..Len(tasks) : tasks[i].done /\ tasks[i].result.tag \in {"raise", "error"}

\* await asyncio.gather(*tasks) resumes when every task has finished, or
\* as soon as one of them has raised
JoinReady(tasks) ==
    \/ \A i \in 1..Len(tasks) : tasks[i].done
    \/ TaskRaised(tasks)

OkBody(content) == ChoicesOf(MessageOf(JObj([content |-> content])))

\* the JSON document {"final_ranking": [...]} over the given labels
RankingText(labels) ==
    JsonText(JObj([final_ranking |-> JArr([i \in 1..Len(labels) |-> JStr(labels[i])])]))

\* what the gateway can answer to one call of a stand-alone fan-out
FanoutTransports ==
    { TransportTimeout,
      HttpResponse(429, Invalid),
      HttpResponse(200, JObj(<<>>)),
      HttpResponse(200, OkBody(JStr(AnswerText))) }

\* what the gateway can answer to a stage-1 call
Stage1Transports ==
    { TransportTimeout,
      HttpResponse(429, Invalid),
      HttpResponse(200, OkBody(JNull)),
      HttpResponse(200, OkBody(JStr(AnswerText))) }

\* what the gateway can answer to a ranking prompt: no answer, no content,
\* prose, the labels in the order shown
Stage2Transports(l2m) ==
    { TransportTimeout,
      HttpResponse(200, OkBody(JNull)),
      HttpResponse(200, OkBody(JStr(AnswerText))),
      HttpResponse(200, OkBody(JStr(RankingText(DictKeys(l2m))))) }

\* what the gateway can answer to the chairman prompt
Stage3Transports ==
    { TransportTimeout,
      HttpResponse(500, Invalid),
      HttpResponse(200, OkBody(JNull)),
      HttpResponse(200, OkBody(JStr(AnswerText))) }

GatewayAnswers ==
    IF pc = "stage1" THEN Stage1Transports
    ELSE IF pc = "stage2" THEN Stage2Transports(label_to_model)
    ELSE FanoutTransports

ModelLists(max) == UNION {[1..n -> RawModels] : n \in 1..max}

Chairmen == {ModelA}

Histories == {<<>>, <<UserMessage(JStr(Str("question")))>>}

NoReturn == [tag |-> "none"]
RaisedOut(exc) == [tag |-> "raised", exc |-> exc]

\* the log entries of the calls a fan-out issues, in list order
IssueLog(stage, models) ==
    [i \in 1..Len(models) |-> [stage |-> stage, model |-> models[i], done |-> FALSE]]

(***************************************************************************)
(* Actions of query_models_parallel                                        *)
(***************************************************************************)
\* one task of the fan-out finishes
FanoutComplete(i) ==
    /\ fo_pc = "running"
    /\ i \in 1..Len(fo_tasks)
    /\ ~fo_tasks[i].done
    /\ \E tr \in GatewayAnswers :
          LET result == query_model(fo_models[i], tr, DefaultTimeout)
          IN  /\ fo_tasks' = [fo_tasks EXCEPT ![i] = [done |-> TRUE, result |-> result]]
              /\ log' = [log EXCEPT ![Len(log) - Len(fo_tasks) + i].done = TRUE]
    /\ fo_order' = Append(fo_order, i)
    /\ UNCHANGED <<fo_models, fo_messages, fo_pc, fo_result>>
    /\ UNCHANGED <<queryVars, inputVars, localVars, pc, ret, pureVars, streamVars, sideVars>>

\* the awaiting coroutine resumes and builds the mapping
FanoutJoin ==
    /\ fo_pc = "running"
    /\ JoinReady(fo_tasks)
    /\ IF TaskRaised(fo_tasks)
       THEN fo_pc' = "raised" /\ fo_result' = <<>>
       ELSE /\ fo_pc' = "returned"
            /\ fo_result' = DictZip(fo_models, Gather(fo_tasks, fo_order))
    /\ UNCHANGED <<fo_models, fo_messages, fo_tasks, fo_order>>
    /\ UNCHANGED <<queryVars, inputVars, localVars, pc, ret, log, pureVars, streamVars, sideVars>>

(***************************************************************************)
(* Actions of run_full_council                                             *)
(***************************************************************************)
FanoutIdle ==
    /\ fo_models = <<>>
    /\ fo_messages = <<>>
    /\ fo_tasks = <<>>
    /\ fo_order = <<>>
    /\ fo_pc = "idle"
    /\ fo_result = <<>>

\* query_models_parallel(models, msgs) is called: the tasks are created
FanoutIssue(stage, models, msgs) ==
    /\ fo_models' = models
    /\ fo_messages' = msgs
    /\ fo_tasks' = CreateTasks(models)
    /\ fo_order' = <<>>
    /\ fo_pc' = "running"
    /\ fo_result' = <<>>
    /\ log' = log \o IssueLog(stage, models)

\* the locals of query_models_parallel are gone
FanoutDrop ==
    /\ fo_models' = <<>>
    /\ fo_messages' = <<>>
    /\ fo_tasks' = <<>>
    /\ fo_order' = <<>>
    /\ fo_pc' = "idle"
    /\ fo_result' = <<>>

\* messages[-1]["content"]
CurrentQuery == messages[Len(messages)].content

\* entry: the empty-history check, the effective models, the stage-1 fan-out
RunStart ==
    /\ pc = "start"
    /\ IF messages = <<>>
       THEN /\ pc' = "returned"
            /\ ret' = EmptyHistoryReturn
            /\ UNCHANGED <<fanoutVars, localVars, log>>
       ELSE LET effective == get_effective_models(in_council, in_chairman, in_web)
            IN  /\ council_models' = effective.council_models
                /\ chairman_model' = effective.chairman_model
                /\ web_search_enabled' = effective.web_search_enabled
                /\ FanoutIssue(1, effective.council_models, messages)
                /\ pc' = "stage1"
                /\ UNCHANGED <<stage1_responses, stage1_results, stage1_errors,
                               stage2_responses, stage2_results, label_to_model,
                               stage2_errors, stage3_response, ret>>
    /\ UNCHANGED <<queryVars, inputVars, pureVars, streamVars, sideVars>>

\* stage 1 is partitioned; no success ends the run, else stage 2 is issued
Stage1Collect ==
    /\ pc = "stage1"
    /\ fo_pc \in {"returned", "raised"}
    /\ IF fo_pc = "raised"
       THEN /\ pc' = "raised"
            /\ ret' = RaisedOut("stage1")
            /\ FanoutDrop
            /\ UNCHANGED <<stage1_responses, stage1_results, stage1_errors,
                           label_to_model, log>>
       ELSE /\ stage1_responses' = fo_result
            /\ stage1_results' = Stage1Results(fo_result)
            /\ stage1_errors' = StageErrors(fo_result)
            /\ IF Stage1Results(fo_result) = <<>>
               THEN /\ pc' = "returned"
                    /\ ret' = AllFailedReturn(StageErrors(fo_result))
                    /\ FanoutDrop
                    /\ UNCHANGED <<label_to_model, log>>
               ELSE /\ pc' = "stage2"
                    /\ label_to_model' = LabelToModel(Stage1Results(fo_result))
                    /\ FanoutIssue(2, council_models,
                                   <<UserMessage(RankingPrompt(CurrentQuery,
                                                               Stage1Results(fo_result)))>>)
                    /\ UNCHANGED ret
    /\ UNCHANGED <<council_models, chairman_model, web_search_enabled,
                   stage2_responses, stage2_results, stage2_errors, stage3_response>>
    /\ UNCHANGED <<queryVars, inputVars, pureVars, streamVars, sideVars>>

\* stage 2 is parsed and partitioned, then the chairman call is issued
Stage2Collect ==
    /\ pc = "stage2"
    /\ fo_pc \in {"returned", "raised"}
    /\ IF fo_pc = "raised"
       THEN /\ pc' = "raised"
            /\ ret' = RaisedOut("stage2")
            /\ UNCHANGED <<stage2_responses, stage2_results, stage2_errors, log>>
       ELSE IF Stage2Raises(fo_result, label_to_model)
       THEN /\ pc' = "raised"
            /\ ret' = RaisedOut("TypeError")
            /\ stage2_responses' = fo_result
            /\ UNCHANGED <<stage2_results, stage2_errors, log>>
       ELSE /\ pc' = "stage3"
            /\ stage2_responses' = fo_result
            /\ stage2_results' = Stage2Results(fo_result, label_to_model)
            /\ stage2_errors' = StageErrors(fo_result)
            /\ log' = log \o IssueLog(3, <<chairman_model>>)
            /\ UNCHANGED ret
    /\ FanoutDrop
    /\ UNCHANGED <<council_models, chairman_model, web_search_enabled,
                   stage1_responses, stage1_results, stage1_errors, label_to_model,
                   stage3_response>>
    /\ UNCHANGED <<queryVars, inputVars, pureVars, streamVars, sideVars>>

\* metadata of a complete run
Metadata(e3, tournament_rankings) ==
    [label_to_model |-> label_to_model,
     aggregate_rankings |-> calculate_aggregate_rankings(stage2_results, label_to_model),
     tournament_rankings |-> tournament_rankings,
     council_models |-> council_models,
     chairman_model |-> chairman_model,
     web_search_enabled |-> web_search_enabled,
     errors |-> ErrorsOrNone(stage1_errors, stage2_errors, e3)]

\* the chairman call resolves and the quadruple is returned
Stage3Complete ==
    /\ pc = "stage3"
    /\ \E tr \in Stage3Transports,
          tournament_rankings \in calculate_tournament_rankings(stage2_results,
                                                                label_to_model) :
          LET response == query_model(chairman_model, tr, DefaultTimeout)
          IN  /\ stage3_response' = response
              /\ IF response.tag = "raise"
                 THEN pc' = "raised" /\ ret' = RaisedOut(response.exc)
                 ELSE /\ pc' = "returned"
                      /\ ret' = Quadruple(stage1_results, stage2_results,
                                          Stage3Result(chairman_model, response),
                                          Metadata(Stage3Errors(response),
                                                   tournament_rankings))
              /\ log' = [log EXCEPT ![Len(log)].done = TRUE]
    /\ UNCHANGED <<council_models, chairman_model, web_search_enabled,
                   stage1_responses, stage1_results, stage1_errors,
                   stage2_responses, stage2_results, label_to_model, stage2_errors>>
    /\ UNCHANGED <<queryVars, inputVars, fanoutVars, pureVars, streamVars, sideVars>>

(***************************************************************************)
(* main.py: send_message_stream, the generator of the event stream         *)
(***************************************************************************)
\* `x if x else None` for a list, as JSON
ListOrNone(list) == IF list # <<>> THEN JArr(list) ELSE JNull

StartEvent(stage) == [type |-> stage \o "_start"]

Stage1CompleteEvent(results, errors) ==
    [type |-> "stage1_complete", data |-> results, errors |-> ListOrNone(errors)]

AllFailedEvent(errors) ==
    [type |-> "error",
     message |-> "All models failed to respond. Please try again.",
     errors |-> ListOrNone(errors)]

Stage2CompleteEvent(results, l2m, aggregate_rankings, tournament_rankings, errors) ==
    [type |-> "stage2_complete",
     data |-> results,
     metadata |-> [label_to_model |-> l2m,
                   aggregate_rankings |-> aggregate_rankings,
                   tournament_rankings |-> tournament_rankings],
     errors |-> ListOrNone(errors)]

Stage3CompleteEvent(result, errors) ==
    [type |-> "stage3_complete", data |-> result, errors |-> ListOrNone(errors)]

TitleCompleteEvent == [type |-> "title_complete"]

CompleteEvent == [type |-> "complete"]

\* the same forwarding the text of the exception
UnexpectedErrorEventLeaking(exc) == [type |-> "error", message |-> exc]

\* the event of the `except Exception` handler
UnexpectedErrorEvent(exc) ==
    [type |-> "error", message |-> "An unexpected error occurred. Please try again."]

\* the same never taking the short cut
Stage1FailedNever(results) == FALSE

\* `if not stage1_results`
Stage1Failed(results) == results = <<>>

\* the parameters of stage3_synthesize_final; all but the last are required
Stage3Parameters ==
    <<"user_query", "stage1_results", "stage2_results", "label_to_model",
      "aggregate_rankings", "tournament_rankings", "chairman_model">>

Stage3Required == 6

\* Python's binding of positional arguments to the parameters
BindStage3(arguments) ==
    IF Len(arguments) < Stage3Required \/ Len(arguments) > Len(Stage3Parameters)
    THEN Raised("TypeError")
    ELSE Returned([k \in 1..Len(arguments) |->
                     [k |-> Stage3Parameters[k], v |-> arguments[k]]])

\* the arguments the generator calls stage3_synthesize_final with
StreamStage3Arguments ==
    <<CurrentQuery, "stage1_results", "stage2_results", "chairman_model">>

\* the events from the chairman's answer on: stage3_complete, the title if
\* one was asked for, complete
StreamTail(response) ==
    <<Stage3CompleteEvent(Stage3Result(chairman_model, response), Stage3Errors(response))>>
        \o (IF title_task = "running" THEN <<TitleCompleteEvent>> ELSE <<>>)
        \o <<CompleteEvent>>

\* storage: the conversation file; each message carries its role, whether
\* this run wrote it, and how many events had been yielded when it was
\* written
NoConversation == [exists |-> FALSE, messages |-> <<>>]

StoredMessage(role, ours, at) == [role |-> role, ours |-> ours, at |-> at]

\* the conversation as send_message_stream found it: empty, or holding one
\* earlier exchange
Conversation(first) ==
    [exists |-> TRUE,
     messages |-> IF first THEN <<>>
                  ELSE <<StoredMessage("user", FALSE, 0),
                         StoredMessage("assistant", FALSE, 0)>>]

AddUserMessageNever(conversation, at) == conversation

\* storage.add_user_message on a conversation that exists
add_user_message(conversation, at) ==
    [conversation EXCEPT !.messages = Append(@, StoredMessage("user", TRUE, at))]

\* storage.add_assistant_message on a conversation that exists
add_assistant_message(conversation, at) ==
    [conversation EXCEPT !.messages = Append(@, StoredMessage("assistant", TRUE, at))]

\* the user message is stored, the title task started, the effective
\* models read, stage1_start yielded and the stage-1 fan-out issued; when
\* the conversation was deleted in the meantime add_user_message raises
StreamStart ==
    /\ pc = "start"
    /\ \E found \in BOOLEAN :
          IF ~found
          THEN /\ caught' = "ValueError"
               /\ events' = <<UnexpectedErrorEvent("ValueError")>>
               /\ pc' = "done"
               /\ stored' = NoConversation
               /\ UNCHANGED <<fanoutVars, council_models, chairman_model,
                              web_search_enabled, title_task, log>>
          ELSE LET effective == get_effective_models(in_council, in_chairman, in_web)
               IN  /\ title_task' = IF is_first_message THEN "running" ELSE "none"
                   /\ council_models' = effective.council_models
                   /\ chairman_model' = effective.chairman_model
                   /\ web_search_enabled' = effective.web_search_enabled
                   /\ stored' = add_user_message(stored, Len(events))
                   /\ events' = <<StartEvent("stage1")>>
                   /\ FanoutIssue(1, effective.council_models, messages)
                   /\ pc' = "stage1"
                   /\ UNCHANGED caught
    /\ UNCHANGED <<stage1_responses, stage1_results, stage1_errors, stage2_responses,
                   stage2_results, label_to_model, stage2_errors, stage3_response, ret>>
    /\ UNCHANGED <<queryVars, inputVars, is_first_message, pureVars, sideVars>>

\* stage1_complete is yielded; without a success the error event ends the
\* stream, else stage2_start is yielded and the stage-2 fan-out issued
StreamStage1 ==
    /\ pc = "stage1"
    /\ fo_pc \in {"returned", "raised"}
    /\ IF fo_pc = "raised"
       THEN /\ caught' = "stage1"
            /\ events' = Append(events, UnexpectedErrorEvent("stage1"))
            /\ pc' = "done"
            /\ FanoutDrop
            /\ UNCHANGED <<stage1_responses, stage1_results, stage1_errors,
                           label_to_model, title_task, log>>
       ELSE /\ stage1_responses' = fo_result
            /\ stage1_results' = Stage1Results(fo_result)
            /\ stage1_errors' = StageErrors(fo_result)
            /\ UNCHANGED caught
            /\ IF Stage1Failed(Stage1Results(fo_result))
               THEN /\ title_task' = IF title_task = "running" THEN "cancelled"
                                     ELSE title_task
                    /\ events' = events
                          \o <<Stage1CompleteEvent(Stage1Results(fo_result),
                                                   StageErrors(fo_result)),
                               AllFailedEvent(StageErrors(fo_result))>>
                    /\ pc' = "done"
                    /\ FanoutDrop
                    /\ UNCHANGED <<label_to_model, log>>
               ELSE /\ events' = events
                          \o <<Stage1CompleteEvent(Stage1Results(fo_result),
                                                   StageErrors(fo_result)),
                               StartEvent("stage2")>>
                    /\ pc' = "stage2"
                    /\ label_to_model' = LabelToModel(Stage1Results(fo_result))
                    /\ FanoutIssue(2, council_models,
                                   <<UserMessage(RankingPrompt(CurrentQuery,
                                                               Stage1Results(fo_result)))>>)
                    /\ UNCHANGED title_task
    /\ UNCHANGED <<council_models, chairman_model, web_search_enabled, stage2_responses,
                   stage2_results, stage2_errors, stage3_response, ret, stored>>
    /\ UNCHANGED <<queryVars, inputVars, is_first_message, pureVars, sideVars>>

\* the rankings are parsed and aggregated, stage2_complete and
\* stage3_start are yielded and stage3_synthesize_final is called; what
\* the call raises is caught and ends the stream with the error event
StreamStage2 ==
    /\ pc = "stage2"
    /\ fo_pc \in {"returned", "raised"}
    /\ pc' = "done"
    /\ IF fo_pc = "raised"
       THEN /\ caught' = "stage2"
            /\ events' = Append(events, UnexpectedErrorEvent("stage2"))
            /\ UNCHANGED <<stage2_responses, stage2_results, stage2_errors,
                           stage3_response, log, stored>>
       ELSE IF Stage2Raises(fo_result, label_to_model)
       THEN /\ caught' = "TypeError"
            /\ events' = Append(events, UnexpectedErrorEvent("TypeError"))
            /\ stage2_responses' = fo_result
            /\ UNCHANGED <<stage2_results, stage2_errors, stage3_response, log, stored>>
       ELSE /\ stage2_responses' = fo_result
            /\ stage2_results' = Stage2Results(fo_result, label_to_model)
            /\ stage2_errors' = StageErrors(fo_result)
            /\ \E tournament_rankings \in
                      calculate_tournament_rankings(Stage2Results(fo_result, label_to_model),
                                                    label_to_model),
                  tr \in Stage3Transports :
                  LET yielded ==
                          events
                            \o <<Stage2CompleteEvent(
                                     Stage2Results(fo_result, label_to_model),
                                     label_to_model,
                                     calculate_aggregate_rankings(
                                         Stage2Results(fo_result, label_to_model),
                                         label_to_model),
                                     tournament_rankings,
                                     StageErrors(fo_result)),
                                 StartEvent("stage3")>>
                      bound == BindStage3(StreamStage3Arguments)
                      response == query_model(chairman_model, tr, DefaultTimeout)
                  IN  IF bound.exc # "none"
                      THEN /\ caught' = bound.exc
                           /\ events' = Append(yielded, UnexpectedErrorEvent(bound.exc))
                           /\ UNCHANGED <<stage3_response, log, stored>>
                      ELSE /\ stage3_response' = response
                           /\ events' = yielded \o StreamTail(response)
                           /\ stored' = add_assistant_message(
                                            stored,
                                            Len(yielded) + Len(StreamTail(response)) - 1)
                           /\ log' = Append(log, [stage |-> 3, model |-> chairman_model,
                                                  done |-> TRUE])
                           /\ UNCHANGED caught
    /\ FanoutDrop
    /\ UNCHANGED <<council_models, chairman_model, web_search_enabled, stage1_responses,
                   stage1_results, stage1_errors, label_to_model, title_task, ret>>
    /\ UNCHANGED <<queryVars, inputVars, is_first_message, pureVars, sideVars>>

(***************************************************************************)
(* transcription.py: transcribe_audio under its tenacity decorator         *)
(***************************************************************************)
\* the groq exceptions named in _is_retriable_error
GroqTransient ==
    {"APIConnectionError", "APITimeoutError", "RateLimitError", "InternalServerError"}

\* 401, 400, 403 and 402 (which has no class of its own)
GroqPermanent ==
    {"AuthenticationError", "BadRequestError", "PermissionDeniedError", "APIStatusError"}

TranscribedText == JStr(Str("transcript"))

\* what client.audio.transcriptions.create can do
ApiOutcomes ==
    {Returned(TranscribedText)} \cup {Raised(e) : e \in GroqTransient \cup GroqPermanent}

\* get_groq_client: the client, or the exception it raises
get_groq_client(configured) ==
    IF configured THEN Returned(JNull) ELSE Raised("GroqNotConfiguredError")

\* the isinstance test (groq can be imported whenever a client exists)
_is_retriable_error(exception) == exception \in GroqTransient

\* the function body: get_groq_client is called outside the try, and the
\* handler logs and re-raises on both of its branches
transcribe_audio(configured, api) ==
    IF get_groq_client(configured).exc # "none"
    THEN get_groq_client(configured)
    ELSE IF api.exc = "none"
    THEN api
    ELSE IF ~_is_retriable_error(api.exc)
    THEN Raised(api.exc)
    ELSE Raised(api.exc)

\* retry=retry_if_exception_type(Exception): every exception class above
\* derives from Exception
retry_if_exception_type(outcome) == outcome.exc # "none"

StopAfterFive(attempt_number) == attempt_number >= 5

\* stop=stop_after_attempt(4)
stop_after_attempt(attempt_number) == attempt_number >= 4

\* one attempt of the decorated call: the body runs; its value is returned,
\* or its exception is raised once the stop condition holds (reraise=True),
\* or another attempt follows
TranscribeAttempt ==
    /\ t_result = NoResult
    /\ \E api \in ApiOutcomes :
          LET outcome == transcribe_audio(t_configured, api)
          IN  /\ t_attempts' = Append(t_attempts, outcome)
              /\ t_result' =
                    IF ~retry_if_exception_type(outcome) THEN outcome
                    ELSE IF stop_after_attempt(Len(t_attempts) + 1) THEN outcome
                    ELSE NoResult
    /\ UNCHANGED <<t_configured, cacheVars>>
    /\ UNCHANGED <<queryVars, fanoutVars, inputVars, localVars, pc, ret, log, pureVars,
                   streamVars>>

(***************************************************************************)
(* models.py: the catalog cache and get_available_models                   *)
(***************************************************************************)
CACHE_TTL_SECONDS == 300

\* last_updated is None
Never == -1

\* model identifiers of the upstream catalog, as tokens
OpenAiX == <<"openai", "/", "x">>
OpenAiY == <<"openai", "/", "y">>
AnthropicZ == <<"anthropic", "/", "z">>
LocalModel == <<"local">>

ModelData(id, created) == [id |-> id, created |-> created]

\* the `data` list of the upstream answer
UpstreamAnswers ==
    { <<ModelData(OpenAiX, 1), ModelData(LocalModel, 2)>>,
      <<ModelData(OpenAiX, 1), ModelData(AnthropicZ, 0), ModelData(OpenAiY, 3)>> }

FetchErrors == {"HTTPStatusError", "ConnectTimeout"}

HasSlash(id) == \E i \in 1..Len(id) : id[i] = "/"

\* model_id.split("/")[0]
ProviderOf(id) ==
    JoinStr(SubSeq(id, 1, (CHOOSE i \in 1..Len(id) :
                              id[i] = "/" /\ \A j \in 1..(i - 1) : id[j] # "/") - 1))

\* _parse_model for an identifier with a "/" (name, pricing and context
\* length are carried over and take no part in what follows)
ModelInfo(model_data) ==
    [id |-> model_data.id, provider |-> ProviderOf(model_data.id),
     created |-> model_data.created]

RECURSIVE ParseModels(_)
\* the loop of fetch_models_from_openrouter: entries whose id has no "/"
\* are skipped
ParseModels(models_data) ==
    IF models_data = <<>> THEN <<>>
    ELSE (IF HasSlash(Head(models_data).id) THEN <<ModelInfo(Head(models_data))>> ELSE <<>>)
            \o ParseModels(Tail(models_data))

RECURSIVE GroupByProvider(_, _)
GroupByProvider(models, by_provider) ==
    IF models = <<>> THEN by_provider
    ELSE LET model == Head(models)
             sofar == IF DictHas(by_provider, model.provider)
                      THEN DictAt(by_provider, model.provider) ELSE <<>>
         IN  GroupByProvider(Tail(models),
                             DictSet(by_provider, model.provider, Append(sofar, model)))

\* each provider's models, newest first
_organize_models(models) ==
    LET by_provider == GroupByProvider(models, <<>>)
    IN  [i \in 1..Len(by_provider) |->
            [k |-> by_provider[i].k,
             v |-> StableSort(by_provider[i].v,
                              [j \in 1..Len(by_provider[i].v) |->
                                  <<0 - by_provider[i].v[j].created, 0>>])]]

ModelsCache(models, models_by_id, models_by_provider, last_updated) ==
    [models |-> models, models_by_id |-> models_by_id,
     models_by_provider |-> models_by_provider, last_updated |-> last_updated]

EmptyCache == ModelsCache(<<>>, <<>>, <<>>, Never)

\* lines 221-224: the four assignments after a fetch
Refreshed(models, now) ==
    ModelsCache(models,
                DictZip([i \in 1..Len(models) |-> models[i].id], models),
                _organize_models(models),
                now)

\* ModelsCache.is_stale
is_stale(cache, now) ==
    \/ cache.last_updated = Never
    \/ now - cache.last_updated > CACHE_TTL_SECONDS

MaxCallers == 2
MaxTicks == 2

\* the clock is read every ClockStep seconds
ClockStep == 300

Callers == 1..MaxCallers

NoCall == [pc |-> "idle", force |-> FALSE, arrived |-> Never, stale |-> FALSE,
           ret |-> NoResult]

FreeLock == [holder |-> 0, waiters |-> <<>>]

LockFreeAlways == TRUE

\* asyncio.Lock.acquire takes the lock at once when it is free and nobody
\* waits for it
LockFree == m_lock.holder = 0 /\ m_lock.waiters = <<>>

\* the body of `async with _cache_lock` up to its first await, run by
\* caller c holding the lock: a fresh cache is returned and the lock
\* released, else the upstream fetch is issued
Locked(c, call, waiters) ==
    IF ~call.force /\ ~is_stale(m_cache, m_now)
    THEN /\ m_calls' = [m_calls EXCEPT ![c] = [call EXCEPT !.pc = "returned",
                                                          !.ret = Returned(m_cache)]]
         /\ m_lock' = [holder |-> 0, waiters |-> waiters]
         /\ UNCHANGED m_fetches
    ELSE /\ m_calls' = [m_calls EXCEPT ![c] = [call EXCEPT !.pc = "fetching"]]
         /\ m_lock' = [holder |-> c, waiters |-> waiters]
         /\ m_fetches' = Append(m_fetches, [caller |-> c, forced |-> call.force,
                                            start |-> m_now, end |-> Never,
                                            state |-> "flight"])

\* a task calls get_available_models(force_refresh); the tasks are numbered
\* in the order of their calls
CacheCall(c, force_refresh) ==
    /\ m_calls[c].pc = "idle"
    /\ \A d \in 1..(c - 1) : m_calls[d].pc # "idle"
    /\ LET call == [NoCall EXCEPT !.force = force_refresh, !.arrived = m_now,
                                  !.stale = is_stale(m_cache, m_now)]
       IN  IF LockFree
           THEN Locked(c, call, m_lock.waiters)
           ELSE /\ m_calls' = [m_calls EXCEPT ![c] = [call EXCEPT !.pc = "waiting"]]
                /\ m_lock' = [m_lock EXCEPT !.waiters = Append(@, c)]
                /\ UNCHANGED m_fetches
    /\ UNCHANGED <<m_cache, m_now, transcribeVars>>
    /\ UNCHANGED <<queryVars, fanoutVars, inputVars, localVars, pc, ret, log, pureVars,
                   streamVars>>

\* the lock was released: the task that waited longest gets it
CacheWake(c) ==
    /\ m_calls[c].pc = "waiting"
    /\ m_lock.holder = 0
    /\ m_lock.waiters # <<>>
    /\ Head(m_lock.waiters) = c
    /\ Locked(c, m_calls[c], Tail(m_lock.waiters))
    /\ UNCHANGED <<m_cache, m_now, transcribeVars>>
    /\ UNCHANGED <<queryVars, fanoutVars, inputVars, localVars, pc, ret, log, pureVars,
                   streamVars>>

EndFetch(state) ==
    [m_fetches EXCEPT ![Len(m_fetches)] = [@ EXCEPT !.end = m_now, !.state = state]]

\* the upstream fetch answers: the cache is replaced, the lock released
FetchReturns(c) ==
    /\ m_calls[c].pc = "fetching"
    /\ \E models_data \in UpstreamAnswers :
          /\ m_cache' = Refreshed(ParseModels(models_data), m_now)
          /\ m_calls' = [m_calls EXCEPT ![c].pc = "returned",
                                        ![c].ret = Returned(m_cache')]
    /\ m_lock' = [m_lock EXCEPT !.holder = 0]
    /\ m_fetches' = EndFetch("ok")
    /\ UNCHANGED <<m_now, transcribeVars>>
    /\ UNCHANGED <<queryVars, fanoutVars, inputVars, localVars, pc, ret, log, pureVars,
                   streamVars>>

FetchRaisesHoldingLock(c) ==
    /\ m_calls[c].pc = "fetching"
    /\ \E exc \in FetchErrors :
          m_calls' = [m_calls EXCEPT ![c].pc = "raised", ![c].ret = Raised(exc)]
    /\ m_fetches' = EndFetch("failed")
    /\ UNCHANGED <<m_cache, m_lock, m_now, transcribeVars>>
    /\ UNCHANGED <<queryVars, fanoutVars, inputVars, localVars, pc, ret, log, pureVars,
                   streamVars>>

\* the upstream fetch raises: the exception leaves `async with`, which
\* releases the lock, and reaches the caller
FetchRaises(c) ==
    /\ m_calls[c].pc = "fetching"
    /\ \E exc \in FetchErrors :
          m_calls' = [m_calls EXCEPT ![c].pc = "raised", ![c].ret = Raised(exc)]
    /\ m_lock' = [m_lock EXCEPT !.holder = 0]
    /\ m_fetches' = EndFetch("failed")
    /\ UNCHANGED <<m_cache, m_now, transcribeVars>>
    /\ UNCHANGED <<queryVars, fanoutVars, inputVars, localVars, pc, ret, log, pureVars,
                   streamVars>>

\* time passes
Tick ==
    /\ m_now < MaxTicks * ClockStep
    /\ m_now' = m_now + ClockStep
    /\ UNCHANGED <<m_cache, m_lock, m_calls, m_fetches, transcribeVars>>
    /\ UNCHANGED <<queryVars, fanoutVars, inputVars, localVars, pc, ret, log, pureVars,
                   streamVars>>

(***************************************************************************)
(* Specification of one query_model call                                   *)
(***************************************************************************)
LabelIdle ==
    /\ a_index = 0
    /\ a_label = NoResult

ParseIdle ==
    /\ p_text = JNull
    /\ p_expected = NoExpected
    /\ p_result = NoResult

RankIdle ==
    /\ r_stage2 = <<>>
    /\ r_l2m = <<>>
    /\ r_aggregate = NoResult
    /\ r_tournament = NoResult

SummaryIdle ==
    /\ s_errors = <<>>
    /\ s_summary = NoResult

OnlineIdle ==
    /\ o_model = NoModel
    /\ o_once = NoResult
    /\ o_twice = NoResult

StreamIdle ==
    /\ is_first_message = FALSE
    /\ title_task = "none"
    /\ events = <<>>
    /\ caught = "none"
    /\ stored = NoConversation

CacheIdle ==
    /\ m_cache = EmptyCache
    /\ m_lock = FreeLock
    /\ m_now = 0
    /\ m_calls = [c \in Callers |-> NoCall]
    /\ m_fetches = <<>>

TranscribeIdle ==
    /\ t_configured = FALSE
    /\ t_attempts = <<>>
    /\ t_result = NoResult

PipelineIdle ==
    /\ messages = <<>>
    /\ in_council = <<>>
    /\ in_chairman = NoModel
    /\ in_web = FALSE
    /\ pc = "idle"
    /\ council_models = <<>>
    /\ chairman_model = NoModel
    /\ web_search_enabled = FALSE
    /\ stage1_responses = <<>>
    /\ stage1_results = <<>>
    /\ stage1_errors = <<>>
    /\ stage2_responses = <<>>
    /\ stage2_results = <<>>
    /\ label_to_model = <<>>
    /\ stage2_errors = <<>>
    /\ stage3_response = NoResult
    /\ ret = NoReturn

QueryIdle ==
    /\ q_model = NoModel
    /\ q_transport = TransportTimeout
    /\ q_result = NoResult

QueryInit ==
    /\ q_model \in RawModels
    /\ q_transport \in AllTransports
    /\ q_result = NoResult
    /\ FanoutIdle
    /\ PipelineIdle
    /\ log = <<>>
    /\ LabelIdle /\ ParseIdle /\ RankIdle
    /\ SummaryIdle /\ OnlineIdle /\ StreamIdle
    /\ CacheIdle /\ TranscribeIdle

QueryCall ==
    /\ q_result = NoResult
    /\ q_result' = query_model(q_model, q_transport, DefaultTimeout)
    /\ UNCHANGED <<q_model, q_transport>>
    /\ UNCHANGED <<fanoutVars, inputVars, localVars, pc, ret, log, pureVars, streamVars, sideVars>>

QueryNext == QueryCall

SpecQuery == QueryInit /\ [][QueryNext]_vars

(***************************************************************************)
(* Specification of one query_models_parallel call                         *)
(***************************************************************************)
FanoutInit ==
    /\ QueryIdle
    /\ PipelineIdle
    /\ fo_models \in ModelLists(MaxFanout)
    /\ fo_messages = <<UserMessage(JStr(Str("question")))>>
    /\ fo_tasks = CreateTasks(fo_models)
    /\ fo_order = <<>>
    /\ fo_pc = "running"
    /\ fo_result = <<>>
    /\ log = IssueLog(0, fo_models)
    /\ LabelIdle /\ ParseIdle /\ RankIdle
    /\ SummaryIdle /\ OnlineIdle /\ StreamIdle
    /\ CacheIdle /\ TranscribeIdle

FanoutNext ==
    \/ \E i \in 1..Len(fo_tasks) : FanoutComplete(i)
    \/ FanoutJoin

SpecFanout == FanoutInit /\ [][FanoutNext]_vars

(***************************************************************************)
(* Specification of one run_full_council call                              *)
(***************************************************************************)
Init ==
    /\ QueryIdle
    /\ FanoutIdle
    /\ messages \in Histories
    /\ in_council \in ModelLists(MaxCouncil)
    /\ in_chairman \in Chairmen
    /\ in_web \in BOOLEAN
    /\ pc = "start"
    /\ council_models = <<>>
    /\ chairman_model = NoModel
    /\ web_search_enabled = FALSE
    /\ stage1_responses = <<>>
    /\ stage1_results = <<>>
    /\ stage1_errors = <<>>
    /\ stage2_responses = <<>>
    /\ stage2_results = <<>>
    /\ label_to_model = <<>>
    /\ stage2_errors = <<>>
    /\ stage3_response = NoResult
    /\ ret = NoReturn
    /\ log = <<>>
    /\ LabelIdle /\ ParseIdle /\ RankIdle
    /\ SummaryIdle /\ OnlineIdle /\ StreamIdle
    /\ CacheIdle /\ TranscribeIdle

Next ==
    \/ RunStart
    \/ \E i \in 1..Len(fo_tasks) : FanoutComplete(i)
    \/ FanoutJoin
    \/ Stage1Collect
    \/ Stage2Collect
    \/ Stage3Complete

Spec == Init /\ [][Next]_vars

(***************************************************************************)
(* Specification of one parse_ranking_from_text call                       *)
(***************************************************************************)
MaxRanking == 3

\* the labels Response A, Response B, ... shown to the rankers, and one more
LabelPool == [i \in 1..(MaxRanking + 1) |-> ResponseLabel(_index_to_alpha_label(i - 1).v)]

LegacyText == Str("FINAL RANKING: 1. Response A 2. Response B")

\* what a final_ranking array can hold: labels, a number, null
RankingElements == {JStr(LabelPool[i]) : i \in 1..Len(LabelPool)} \cup {JNum(1), JNull}

RankingArrays == UNION {[1..n -> RankingElements] : n \in 0..MaxRanking}

\* the texts a model can answer a ranking prompt with
RankingTexts ==
    { Str(""), LegacyText,
      JsonText(JNull), JsonText(JNum(1)), JsonText(JStr(LabelPool[1])),
      JsonText(JArr(<<JStr(LabelPool[1]), JStr(LabelPool[2])>>)),
      JsonText(JObj(<<>>)),
      JsonText(JObj([ranking |-> JArr(<<JStr(LabelPool[2]), JStr(LabelPool[1])>>)])),
      JsonText(JObj([final_ranking |-> JNull])),
      JsonText(JObj([final_ranking |-> JNum(1)])),
      JsonText(JObj([final_ranking |-> JStr(LabelPool[1])])),
      JsonText(JObj([final_ranking |-> JObj([a |-> JStr(LabelPool[1])])])) }
    \cup {JsonText(JObj([final_ranking |-> JArr(items)])) : items \in RankingArrays}

\* expected_labels: None, or the keys of a non-empty label_to_model
ExpectedSets ==
    {NoExpected} \cup {Expected(S) : S \in (SUBSET SeqToSet(LabelPool)) \ {{}}}

ParseInit ==
    /\ QueryIdle
    /\ FanoutIdle
    /\ PipelineIdle
    /\ log = <<>>
    /\ LabelIdle
    /\ SummaryIdle /\ OnlineIdle /\ StreamIdle
    /\ CacheIdle /\ TranscribeIdle
    /\ p_text \in {JStr(t) : t \in RankingTexts} \cup {JNull}
    /\ p_expected \in ExpectedSets
    /\ p_result = NoResult
    /\ RankIdle

ParseCall ==
    /\ p_result = NoResult
    /\ p_result' = parse_ranking_from_text(p_text, p_expected)
    /\ UNCHANGED <<p_text, p_expected, labelVars, rankVars, summaryVars, onlineVars>>
    /\ UNCHANGED <<queryVars, fanoutVars, inputVars, localVars, pc, ret, log, streamVars, sideVars>>

ParseNext == ParseCall

SpecParse == ParseInit /\ [][ParseNext]_vars

(***************************************************************************)
(* Specification of one call of each rank aggregation, on what             *)
(* stage2_collect_rankings can hand over                                   *)
(***************************************************************************)
MaxLabels == 4
MaxRankers == 3

\* model identifiers, not in sorted order
ModelPool == <<ModelB, ModelA, ModelAOnline, <<"c">>, <<"d">>>>

Rotate(seq, k) == [i \in 1..Len(seq) |-> seq[((i - 1 + k) % Len(seq)) + 1]]

\* orders a ranker can put the labels in: as shown, first label moved to
\* the end, reversed; of three labels also the last two exchanged and the
\* first two exchanged
RankingOrders(labels) ==
    {labels, Rotate(labels, 1), Reverse(labels)}
        \cup (IF Len(labels) = 3
              THEN {<<labels[1], labels[3], labels[2]>>, <<labels[2], labels[1], labels[3]>>}
              ELSE {})

\* what a ranker can answer: nothing, a ranking that leaves the first
\* label out, a complete ranking
RankerTexts(labels) ==
    {Str(""), RankingText(Tail(labels))}
        \cup {RankingText(order) : order \in RankingOrders(labels)}

RankInit ==
    /\ QueryIdle
    /\ FanoutIdle
    /\ PipelineIdle
    /\ log = <<>>
    /\ LabelIdle /\ ParseIdle
    /\ SummaryIdle /\ OnlineIdle /\ StreamIdle
    /\ CacheIdle /\ TranscribeIdle
    /\ \E n \in 1..MaxLabels, k \in 0..MaxRankers :
          LET l2m == LabelToModel([i \in 1..n |->
                                     [model |-> ModelPool[i], response |-> JStr(AnswerText)]])
          IN  \E texts \in [1..k -> RankerTexts(DictKeys(l2m))] :
                /\ r_l2m = l2m
                /\ r_stage2 =
                      Stage2Results(DictZip(SubSeq(ModelPool, 1, k),
                                            [i \in 1..k |-> Success(JStr(texts[i]), JNull)]),
                                    l2m)
    /\ r_aggregate = NoResult
    /\ r_tournament = NoResult

AggregateCall ==
    /\ r_aggregate = NoResult
    /\ r_aggregate' = Returned(calculate_aggregate_rankings(r_stage2, r_l2m))
    /\ UNCHANGED <<r_stage2, r_l2m, r_tournament, labelVars, parseVars, summaryVars,
                   onlineVars>>
    /\ UNCHANGED <<queryVars, fanoutVars, inputVars, localVars, pc, ret, log, streamVars, sideVars>>

\* called after calculate_aggregate_rankings, on the same arguments
TournamentCall ==
    /\ r_aggregate # NoResult
    /\ r_tournament = NoResult
    /\ \E table \in calculate_tournament_rankings(r_stage2, r_l2m) :
          r_tournament' = Returned(table)
    /\ UNCHANGED <<r_stage2, r_l2m, r_aggregate, labelVars, parseVars, summaryVars,
                   onlineVars>>
    /\ UNCHANGED <<queryVars, fanoutVars, inputVars, localVars, pc, ret, log, streamVars, sideVars>>

RankNext ==
    \/ AggregateCall
    \/ TournamentCall

SpecRank == RankInit /\ [][RankNext]_vars

(***************************************************************************)
(* Specification of one _index_to_alpha_label call                         *)
(***************************************************************************)
MinIndex == -3
MaxIndex == 730

LabelInit ==
    /\ QueryIdle
    /\ FanoutIdle
    /\ PipelineIdle
    /\ log = <<>>
    /\ a_index \in MinIndex..MaxIndex
    /\ a_label = NoResult
    /\ ParseIdle /\ RankIdle
    /\ SummaryIdle /\ OnlineIdle /\ StreamIdle
    /\ CacheIdle /\ TranscribeIdle

LabelCall ==
    /\ a_label = NoResult
    /\ a_label' = _index_to_alpha_label(a_index)
    /\ UNCHANGED <<a_index, parseVars, rankVars, summaryVars, onlineVars>>
    /\ UNCHANGED <<queryVars, fanoutVars, inputVars, localVars, pc, ret, log, streamVars, sideVars>>

LabelNext == LabelCall

SpecLabel == LabelInit /\ [][LabelNext]_vars

(***************************************************************************)
(* Specification of one _summarize_errors call                             *)
(***************************************************************************)
MaxErrors == 3

\* the error kinds a ModelQueryError can carry
ErrorKinds == {"auth", "payment", "rate_limit", "not_found", "timeout", "server", "unknown"}

\* the dict of a failure of a kind, for a model
ErrorDict(kind, model) ==
    to_dict(ModelQueryError(kind, ErrorMessage(kind, model, 0), NoStatus, model))

\* the dicts a stage-1 error list is made of
ErrorDicts ==
    {ErrorDict(kind, ModelA) : kind \in ErrorKinds}
        \cup {ErrorDict("not_found", ModelAOnline)}

SummaryInit ==
    /\ QueryIdle
    /\ FanoutIdle
    /\ PipelineIdle
    /\ log = <<>>
    /\ LabelIdle /\ ParseIdle /\ RankIdle /\ OnlineIdle /\ StreamIdle
    /\ CacheIdle /\ TranscribeIdle
    /\ s_errors \in UNION {[1..n -> ErrorDicts] : n \in 0..MaxErrors}
    /\ s_summary = NoResult

SummaryCall ==
    /\ s_summary = NoResult
    /\ s_summary' = Returned(SummaryText(s_errors))
    /\ UNCHANGED <<s_errors, labelVars, parseVars, rankVars, onlineVars>>
    /\ UNCHANGED <<queryVars, fanoutVars, inputVars, localVars, pc, ret, log, streamVars, sideVars>>

SummaryNext == SummaryCall

SpecSummary == SummaryInit /\ [][SummaryNext]_vars

(***************************************************************************)
(* Specification of one run of the event generator of send_message_stream  *)
(***************************************************************************)
\* what build_context_messages hands over: the question alone in a new
\* conversation, else the earlier exchange and the question
StreamHistories ==
    { <<UserMessage(JStr(Str("question")))>>,
      <<UserMessage(JStr(Str("earlier"))),
        [role |-> "assistant", content |-> JStr(AnswerText)],
        UserMessage(JStr(Str("question")))>> }

\* the configured council lists: the first models of the pool
StreamCouncils == {SubSeq(ModelPool, 1, n) : n \in 1..MaxCouncil}

StreamInit ==
    /\ QueryIdle
    /\ FanoutIdle
    /\ messages \in StreamHistories
    /\ in_council \in StreamCouncils
    /\ in_chairman \in Chairmen
    /\ in_web \in BOOLEAN
    /\ pc = "start"
    /\ council_models = <<>>
    /\ chairman_model = NoModel
    /\ web_search_enabled = FALSE
    /\ stage1_responses = <<>>
    /\ stage1_results = <<>>
    /\ stage1_errors = <<>>
    /\ stage2_responses = <<>>
    /\ stage2_results = <<>>
    /\ label_to_model = <<>>
    /\ stage2_errors = <<>>
    /\ stage3_response = NoResult
    /\ ret = NoReturn
    /\ log = <<>>
    /\ is_first_message = (Len(messages) = 1)
    /\ title_task = "none"
    /\ events = <<>>
    /\ caught = "none"
    /\ stored = Conversation(is_first_message)
    /\ LabelIdle /\ ParseIdle /\ RankIdle /\ SummaryIdle /\ OnlineIdle
    /\ CacheIdle /\ TranscribeIdle

StreamNext ==
    \/ StreamStart
    \/ \E i \in 1..Len(fo_tasks) : FanoutComplete(i)
    \/ FanoutJoin
    \/ StreamStage1
    \/ StreamStage2

SpecStream == StreamInit /\ [][StreamNext]_vars

(***************************************************************************)
(* Specification of apply_online_variant, applied to an identifier and     *)
(* then to its own result                                                  *)
(***************************************************************************)
MaxTokens == 3

\* what identifiers are made of; no two of these spell the suffix together
IdTokens == {"a", "/", ":free", OnlineSuffix}

OnlineInit ==
    /\ QueryIdle
    /\ FanoutIdle
    /\ PipelineIdle
    /\ log = <<>>
    /\ LabelIdle /\ ParseIdle /\ RankIdle /\ SummaryIdle /\ StreamIdle
    /\ CacheIdle /\ TranscribeIdle
    /\ o_model \in UNION {[1..n -> IdTokens] : n \in 0..MaxTokens}
    /\ o_once = NoResult
    /\ o_twice = NoResult

OnlineCall ==
    /\ o_once = NoResult
    /\ o_once' = Returned(apply_online_variant(o_model))
    /\ UNCHANGED <<o_model, o_twice, labelVars, parseVars, rankVars, summaryVars>>
    /\ UNCHANGED <<queryVars, fanoutVars, inputVars, localVars, pc, ret, log, streamVars, sideVars>>

OnlineAgain ==
    /\ o_once # NoResult
    /\ o_twice = NoResult
    /\ o_twice' = Returned(apply_online_variant(o_once.v))
    /\ UNCHANGED <<o_model, o_once, labelVars, parseVars, rankVars, summaryVars>>
    /\ UNCHANGED <<queryVars, fanoutVars, inputVars, localVars, pc, ret, log, streamVars, sideVars>>

OnlineNext ==
    \/ OnlineCall
    \/ OnlineAgain

SpecOnline == OnlineInit /\ [][OnlineNext]_vars

(***************************************************************************)
(* Specification of one transcribe_audio call                              *)
(***************************************************************************)
TranscribeInit ==
    /\ QueryIdle
    /\ FanoutIdle
    /\ PipelineIdle
    /\ log = <<>>
    /\ LabelIdle /\ ParseIdle /\ RankIdle /\ SummaryIdle /\ OnlineIdle /\ StreamIdle
    /\ CacheIdle
    /\ t_configured \in BOOLEAN
    /\ t_attempts = <<>>
    /\ t_result = NoResult

TranscribeNext == TranscribeAttempt

SpecTranscribe == TranscribeInit /\ [][TranscribeNext]_vars

(***************************************************************************)
(* Specification of concurrent get_available_models calls, one per task,   *)
(* on a cache that was never filled or was filled at time 0                *)
(***************************************************************************)
CacheInit ==
    /\ QueryIdle
    /\ FanoutIdle
    /\ PipelineIdle
    /\ log = <<>>
    /\ LabelIdle /\ ParseIdle /\ RankIdle /\ SummaryIdle /\ OnlineIdle /\ StreamIdle
    /\ TranscribeIdle
    /\ m_cache \in {EmptyCache}
                      \cup {Refreshed(ParseModels(models_data), 0) :
                               models_data \in UpstreamAnswers}
    /\ m_lock = FreeLock
    /\ m_now = 0
    /\ m_calls = [c \in Callers |-> NoCall]
    /\ m_fetches = <<>>

CacheNext ==
    \/ \E c \in Callers, force_refresh \in BOOLEAN : CacheCall(c, force_refresh)
    \/ \E c \in Callers : CacheWake(c)
    \/ \E c \in Callers : FetchReturns(c)
    \/ \E c \in Callers : FetchRaises(c)
    \/ Tick

SpecCache == CacheInit /\ [][CacheNext]_vars

(***************************************************************************)
(* Properties                                                              *)
(***************************************************************************)
IsDistinct(seq) == \A i, j \in 1..Len(seq) : i # j => seq[i] # seq[j]

\* the kind of an outcome: the error kind of a failure, else its tag
KindOf(r) == IF r.tag = "error" THEN r.error_type ELSE r.tag

\* the body is a JSON object whose choices[0].message is an object
HasFirstMessage(body) ==
    /\ body.ty = "obj"
    /\ "choices" \in DOMAIN body.fields
    /\ body.fields["choices"].ty = "arr"
    /\ Len(body.fields["choices"].items) > 0
    /\ body.fields["choices"].items[1].ty = "obj"
    /\ "message" \in DOMAIN body.fields["choices"].items[1].fields
    /\ body.fields["choices"].items[1].fields["message"].ty = "obj"

\* C1: when query_models_parallel returns for a list of distinct models, the
\* mapping has exactly one entry per input model and the entry under
\* models[i] is the outcome of the i-th call, whatever the completion order.
C1_ExactAttribution ==
    (fo_pc = "returned" /\ IsDistinct(fo_models)) =>
        /\ Len(fo_result) = Len(fo_models)
        /\ IsDistinct(DictKeys(fo_result))
        /\ \A i \in 1..Len(fo_models) :
              /\ DictHas(fo_result, fo_models[i])
              /\ DictAt(fo_result, fo_models[i]) = fo_tasks[i].result

\* two distinct models whose calls completed in reverse order with outcomes of
\* different kinds, and the fan-out has returned
C1_Witness ==
    /\ fo_pc = "returned"
    /\ IsDistinct(fo_models)
    /\ Len(fo_models) >= 2
    /\ fo_order[1] = 2
    /\ KindOf(fo_tasks[1].result) # KindOf(fo_tasks[2].result)

\* C2: the fan-out never ends by an exception, and when it returns every
\* call has finished with a Success or a Failure and every input model has
\* its entry: a failed call removes no other call's outcome.
C2_JoinAll ==
    /\ fo_pc # "raised"
    /\ fo_pc = "returned" =>
          /\ \A i \in 1..Len(fo_tasks) :
                fo_tasks[i].done /\ fo_tasks[i].result.tag \in {"success", "error"}
          /\ \A i \in 1..Len(fo_models) :
                /\ DictHas(fo_result, fo_models[i])
                /\ DictAt(fo_result, fo_models[i]).tag \in {"success", "error"}

\* a timeout finished first, a success finished after it, and both are in
\* the returned mapping
C2_Witness ==
    /\ fo_pc = "returned"
    /\ Len(fo_models) >= 2
    /\ KindOf(fo_tasks[fo_order[1]].result) = "timeout"
    /\ \E i \in 1..Len(fo_models) :
          /\ fo_tasks[i].result.tag = "success"
          /\ DictAt(fo_result, fo_models[i]).tag = "success"

\* C3: a failed query_model call gets the kind fixed by the transport
\* outcome and the HTTP status: timeout, 401 auth, 402 payment, 404
\* not_found, 429 rate_limit, >= 500 server, any other non-2xx status or a
\* 2xx body without choices[0].message unknown; the Failure names q_model.
C3_ExactClassification ==
    q_result # NoResult =>
        /\ q_transport.t = "timeout" => KindOf(q_result) = "timeout"
        /\ q_transport.t = "response" =>
              /\ q_transport.status = 401 => KindOf(q_result) = "auth"
              /\ q_transport.status = 402 => KindOf(q_result) = "payment"
              /\ q_transport.status = 404 => KindOf(q_result) = "not_found"
              /\ q_transport.status = 429 => KindOf(q_result) = "rate_limit"
              /\ q_transport.status >= 500 => KindOf(q_result) = "server"
              /\ ( /\ q_transport.status \notin {401, 402, 404, 429}
                   /\ q_transport.status < 500
                   /\ (q_transport.status < 200 \/ q_transport.status > 299) )
                   => KindOf(q_result) = "unknown"
              /\ ( /\ q_transport.status >= 200
                   /\ q_transport.status <= 299
                   /\ ~HasFirstMessage(q_transport.body) )
                   => KindOf(q_result) = "unknown"
        /\ q_result.tag = "error" => q_result.model = q_model

\* a 503 answered for model a:online has been classified
C3_Witness ==
    /\ q_result # NoResult
    /\ q_transport.t = "response"
    /\ q_transport.status = 503
    /\ q_model = ModelAOnline
    /\ q_result.tag = "error"

\* C4: query_model always returns a Success or a ModelQueryError, never an
\* exception, and a 2xx body of an unexpected shape (not JSON, or without
\* an object at choices[0].message) is returned as a Failure of kind unknown.
C4_NeverRaises ==
    q_result # NoResult =>
        /\ q_result.tag \in {"success", "error"}
        /\ ( /\ q_transport.t = "response"
             /\ IsSuccessStatus(q_transport.status)
             /\ ~HasFirstMessage(q_transport.body) )
             => (q_result.tag = "error" /\ q_result.error_type = "unknown")

\* a 200 whose choices[0].message is a string, not an object, has been
\* answered by a Failure
C4_Witness ==
    /\ q_transport = HttpResponse(200, ChoicesOf(MessageOf(JStr(AnswerText))))
    /\ q_result.tag = "error"

\* the log positions of the calls of one stage
StageCalls(stage) == {i \in 1..Len(log) : log[i].stage = stage}

AllDone(stage) == \A i \in StageCalls(stage) : log[i].done

Count(seq, P(_)) == Cardinality({i \in 1..Len(seq) : P(seq[i])})

Terminal == pc \in {"returned", "raised"}

\* stage 1 has been partitioned
Stage1Collected == pc \in {"stage2", "stage3", "returned", "raised"} /\ messages # <<>>

FirstLabels == <<Str("Response A"), Str("Response B"), Str("Response C"), Str("Response D")>>

\* C5: run_full_council never ends by an exception, and what it returns is
\* a quadruple whose stage-3 result carries a text to display.
C5_AlwaysQuadruple ==
    /\ pc # "raised"
    /\ pc = "returned" =>
          /\ ret.tag = "returned"
          /\ ret.stage3.response.ty = "str"

\* C6: in a run over a non-empty history and a council list without
\* duplicates, calls are issued stage by stage (a stage-2 call only when
\* every stage-1 call is resolved, the chairman call only when every
\* stage-2 call is resolved), each model is queried at most once per stage
\* and the chairman once, and a run with a stage-1 success ends by
\* returning after Len(council) stage-2 calls and one chairman call.
C6_StagesInOrder ==
    (messages # <<>> /\ IsDistinct(council_models)) =>
        /\ \A i, j \in 1..Len(log) : i < j => log[i].stage <= log[j].stage
        /\ StageCalls(2) # {} => AllDone(1)
        /\ StageCalls(3) # {} => (AllDone(1) /\ AllDone(2))
        /\ \A i, j \in 1..Len(log) :
              (i # j /\ log[i].stage = log[j].stage) => log[i].model # log[j].model
        /\ Cardinality(StageCalls(3)) <= 1
        /\ (Terminal /\ stage1_results # <<>>) =>
              /\ pc = "returned"
              /\ Cardinality(StageCalls(1)) = Len(council_models)
              /\ Cardinality(StageCalls(2)) = Len(council_models)
              /\ Cardinality(StageCalls(3)) = 1
              /\ AllDone(1) /\ AllDone(2) /\ AllDone(3)

\* C7: when every entry of the stage-1 ResponseSet is a Failure, no
\* stage-2 and no chairman call is ever issued and the run returns
\* stage1 = [], stage2 = [], a stage-3 result of model "error" whose text is
\* the summary of the failures (with the "rate limited" fragment, counting
\* them, when they are all rate_limit), the stage-1 error list holding
\* every failure of the ResponseSet, and empty stage-2 and stage-3 lists.
C7_TotalFailure ==
    ( /\ Stage1Collected
      /\ \A k \in 1..Len(stage1_responses) : stage1_responses[k].v.tag = "error" ) =>
        /\ StageCalls(2) = {} /\ StageCalls(3) = {}
        /\ pc = "returned"
        /\ ret.stage1 = <<>>
        /\ ret.stage2 = <<>>
        /\ ret.stage3.model = ErrorModel
        /\ ret.stage3.response.ty = "str"
        /\ ret.stage3.response.s.raw = "All models failed to respond. "
        /\ (\A k \in 1..Len(stage1_responses) :
                stage1_responses[k].v.error_type = "rate_limit") =>
              \E k \in 1..Len(ret.stage3.response.s.args) :
                  /\ ret.stage3.response.s.args[k].text = "model(s) rate limited"
                  /\ ret.stage3.response.s.args[k].n = Len(stage1_responses)
        /\ Len(ret.metadata.errors.stage1) = Len(stage1_responses)
        /\ \A k \in 1..Len(stage1_responses) :
              \E j \in 1..Len(ret.metadata.errors.stage1) :
                  ret.metadata.errors.stage1[j] = to_dict(stage1_responses[k].v)
        /\ ret.metadata.errors.stage2 = <<>>
        /\ ret.metadata.errors.stage3 = <<>>

\* two council models were both rate limited and the run has returned
C7_Witness ==
    /\ pc = "returned"
    /\ Len(council_models) = 2
    /\ Len(stage1_responses) = 2
    /\ \A k \in 1..2 : KindOf(stage1_responses[k].v) = "rate_limit"

\* C8: with an empty history no call is ever issued, and the run returns no
\* stage-1 and no stage-2 result, a stage-3 result of model "error", and
\* errors with exactly one stage-1 error, of kind validation, and empty
\* stage-2 and stage-3 lists.
C8_EmptyHistory ==
    (pc # "idle" /\ messages = <<>>) =>
        /\ log = <<>>
        /\ fo_pc = "idle"
        /\ pc \in {"start", "returned"}
        /\ pc = "returned" =>
              /\ ret.stage1 = <<>>
              /\ ret.stage2 = <<>>
              /\ ret.stage3.model = ErrorModel
              /\ Len(ret.metadata.errors.stage1) = 1
              /\ ret.metadata.errors.stage1[1].error_type = "validation"
              /\ ret.metadata.errors.stage2 = <<>>
              /\ ret.metadata.errors.stage3 = <<>>

\* a run over an empty history has returned
C8_Witness == pc = "returned" /\ messages = <<>> /\ Len(in_council) = 2

\* C9: after stage 1 every council model has its entry in the ResponseSet
\* and is in exactly one of stage1_results (its call succeeded) and
\* stage1_errors (its call failed, listed with its own kind), nothing else
\* is in the two lists, and with at least one success the stage-2 calls
\* are issued and the labels stand for exactly the successful models.
C9_Stage1Partition ==
    Stage1Collected =>
        /\ DictKeySet(stage1_responses) = SeqToSet(council_models)
        /\ Len(stage1_results) + Len(stage1_errors) = Len(stage1_responses)
        /\ \A m \in SeqToSet(council_models) :
              IF DictAt(stage1_responses, m).tag = "success"
              THEN /\ Count(stage1_results, LAMBDA r : r.model = m) = 1
                   /\ Count(stage1_errors, LAMBDA e : e.model = m) = 0
              ELSE /\ Count(stage1_results, LAMBDA r : r.model = m) = 0
                   /\ Count(stage1_errors, LAMBDA e : e.model = m) = 1
                   /\ Count(stage1_errors,
                            LAMBDA e : e.model = m
                                       /\ e.error_type
                                            = DictAt(stage1_responses, m).error_type) = 1
        /\ (\E k \in 1..Len(stage1_responses) : stage1_responses[k].v.tag = "success") =>
              /\ Cardinality(StageCalls(2)) = Len(council_models)
              /\ {label_to_model[k].v : k \in 1..Len(label_to_model)}
                     = {m \in SeqToSet(council_models) :
                            DictAt(stage1_responses, m).tag = "success"}

\* of two models one timed out and one succeeded, and stage 2 is running
C9_Witness ==
    /\ pc = "stage2"
    /\ Len(council_models) = 2
    /\ Len(stage1_results) = 1
    /\ Len(stage1_errors) = 1
    /\ stage1_errors[1].error_type = "timeout"

\* C10: from stage 2 on, label_to_model has as many keys as there are
\* stage-1 results, and its i-th label "Response A", "Response B", ... is a
\* key mapped to the model of the i-th stage-1 result.
C10_LabelsOneToOne ==
    (Stage1Collected /\ stage1_results # <<>>) =>
        /\ Len(label_to_model) = Len(stage1_results)
        /\ IsDistinct(DictKeys(label_to_model))
        /\ \A i \in 1..Len(stage1_results) :
              i <= Len(FirstLabels) =>
                  /\ DictHas(label_to_model, FirstLabels[i])
                  /\ DictAt(label_to_model, FirstLabels[i]) = stage1_results[i].model

\* two stage-1 results have been labelled
C10_Witness ==
    /\ pc = "stage2"
    /\ Len(stage1_results) = 2
    /\ Len(label_to_model) = 2

\* the i-th (from 0) non-empty string over A..Z when the strings are listed
\* by length and then alphabetically: the spreadsheet column numeral
ShortlexLabel(i) ==
    IF i < 26 THEN Letters[i + 1]
    ELSE IF i < 26 + 676
    THEN Letters[((i - 26) \div 26) + 1] \o Letters[((i - 26) % 26) + 1]
    ELSE Letters[((i - 702) \div 676) + 1]
            \o Letters[(((i - 702) \div 26) % 26) + 1]
            \o Letters[((i - 702) % 26) + 1]

\* C11: _index_to_alpha_label(i) is the bijective base-26 numeral of i for
\* every i >= 0 (0 -> A, 25 -> Z, 26 -> AA, 27 -> AB, 51 -> AZ, 52 -> BA),
\* no other index in range has the same label, and a negative index is
\* rejected with a ValueError.
C11_AlphaLabel ==
    a_label # NoResult =>
        IF a_index < 0
        THEN a_label = Raised("ValueError")
        ELSE /\ a_label = Returned(ShortlexLabel(a_index))
             /\ a_index = 0 => a_label.v = "A"
             /\ a_index = 25 => a_label.v = "Z"
             /\ a_index = 26 => a_label.v = "AA"
             /\ a_index = 27 => a_label.v = "AB"
             /\ a_index = 51 => a_label.v = "AZ"
             /\ a_index = 52 => a_label.v = "BA"
             /\ \A j \in 0..MaxIndex :
                   j # a_index => _index_to_alpha_label(j) # a_label

\* index 52 has been converted, to the two-letter label BA
C11_Witness == a_index = 52 /\ a_label = Returned("BA")

\* the value json.loads makes of the text parsed
ParsedValue == p_text.s.loads

\* the parsed value is an object whose final_ranking is an array
HasRankingArray ==
    /\ ParsedValue.ty = "obj"
    /\ "final_ranking" \in DOMAIN ParsedValue.fields
    /\ ParsedValue.fields.final_ranking.ty = "arr"

RankingItems == ParsedValue.fields.final_ranking.items

\* the array is made of pairwise different strings
WellFormedRanking ==
    /\ HasRankingArray
    /\ \A i \in 1..Len(RankingItems) : RankingItems[i].ty = "str"
    /\ \A i, j \in 1..Len(RankingItems) : i # j => RankingItems[i] # RankingItems[j]

RankingAsGiven == [i \in 1..Len(RankingItems) |-> RankingItems[i].s]

\* C12: parse_ranking_from_text returns [] when the text is not JSON
\* (empty text and legacy "FINAL RANKING:" prose included), the parsed
\* value is not an object, final_ranking is missing or not an array, an
\* element is not a string or a string occurs twice; otherwise, when no
\* expected labels are given, it returns the array unchanged.
C12_ParseRejects ==
    (p_result # NoResult /\ p_text.ty = "str") =>
        /\ ~WellFormedRanking => p_result = Returned(<<>>)
        /\ (WellFormedRanking /\ ~p_expected.given) =>
              p_result = Returned(RankingAsGiven)

\* the legacy free-text format was parsed with no expected labels: []
C12_Witness ==
    /\ p_text = JStr(LegacyText)
    /\ ~p_expected.given
    /\ p_result # NoResult
    /\ p_result.exc = "none"
    /\ p_result.v = <<>>

\* the array is an exact permutation of the expected labels
ExactPermutation ==
    /\ WellFormedRanking
    /\ Len(RankingItems) = Cardinality(p_expected.labels)
    /\ \A l \in p_expected.labels : \E i \in 1..Len(RankingItems) : RankingItems[i] = JStr(l)
    /\ \A i \in 1..Len(RankingItems) : RankingItems[i].s \in p_expected.labels

\* C13: with expected labels the result is non-empty exactly when the
\* final_ranking array is an exact permutation of them, and is then the
\* array in its own order; partial, extended and foreign rankings give [].
C13_ExactPermutation ==
    (p_result # NoResult /\ p_text.ty = "str" /\ p_expected.given) =>
        /\ p_result.exc = "none"
        /\ p_result.v # <<>> <=> ExactPermutation
        /\ ExactPermutation => p_result.v = RankingAsGiven
        /\ ~ExactPermutation => p_result.v = <<>>

\* Response C, Response A, Response B was accepted for {A, B, C}
C13_Witness ==
    /\ p_expected = Expected({LabelPool[1], LabelPool[2], LabelPool[3]})
    /\ p_result # NoResult
    /\ p_result.exc = "none"
    /\ p_result.v = <<LabelPool[3], LabelPool[1], LabelPool[2]>>

(***************************************************************************)
(* Properties of the rank aggregations                                     *)
(***************************************************************************)
AggregateDone == r_aggregate # NoResult

TournamentDone == r_tournament # NoResult

\* the stage-2 results that carry a ranking
Voters == SelectSeq(r_stage2, LAMBDA r : r.parsed_ranking # <<>>)

Abs(x) == IF x < 0 THEN 0 - x ELSE x

\* the label a model's response was shown under
LabelOf(m) == CHOOSE l \in DictKeySet(r_l2m) : DictAt(r_l2m, l) = m

\* the number of rankers whose ranking has the label at position p
RankedAt(label, p) ==
    Cardinality({i \in 1..Len(r_stage2) :
                    /\ p <= Len(r_stage2[i].parsed_ranking)
                    /\ r_stage2[i].parsed_ranking[p] = label})

\* how often the label appears in the parsed rankings, and at which
\* positions in total
Appearances(label) == Sum([p \in 1..Len(r_l2m) |-> RankedAt(label, p)])

PositionSum(label) == Sum([p \in 1..Len(r_l2m) |-> p * RankedAt(label, p)])

\* the number of rankers who placed the first label before the second
Preferred(first, second) ==
    Cardinality({i \in 1..Len(r_stage2) :
        \E p, q \in 1..Len(r_stage2[i].parsed_ranking) :
            /\ p < q
            /\ r_stage2[i].parsed_ranking[p] = first
            /\ r_stage2[i].parsed_ranking[q] = second})

\* Preferred for every two labels of label_to_model, by their indices
PreferenceTable ==
    <<>> \o [x \in 1..Len(r_l2m) |->
                <<>> \o [y \in 1..Len(r_l2m) |-> Preferred(r_l2m[x].k, r_l2m[y].k)]]

\* the index in label_to_model of the entry for a model
EntryOf(m) == CHOOSE x \in 1..Len(r_l2m) : r_l2m[x].v = m

\* two labels, two rankers, one voting [A, B] and the other [B, A]
SplitVote ==
    /\ Len(r_l2m) = 2
    /\ Len(r_stage2) = 2
    /\ r_stage2[1].parsed_ranking = DictKeys(r_l2m)
    /\ r_stage2[2].parsed_ranking = Reverse(DictKeys(r_l2m))

\* C14: a Stage2Result with an empty parsed_ranking is a non-vote for both
\* aggregations: the mean-position table is the one computed from the
\* results that carry a ranking alone, no model has more recorded positions
\* than there are such results, and every row of the tournament table is
\* the row the sub-wins of those results alone give.
C14_EmptyVoteSkipped ==
    /\ AggregateDone =>
          /\ r_aggregate.v = calculate_aggregate_rankings(Voters, r_l2m)
          /\ \A k \in 1..Len(r_aggregate.v) :
                r_aggregate.v[k].rankings_count <= Len(Voters)
    /\ TournamentDone =>
          LET models == <<>> \o [k \in 1..Len(r_tournament.v) |-> r_tournament.v[k].model]
              ranked == AllRankedPositions(Voters, r_l2m)
              sub == SubWinsTable(ranked, models)
          IN  \A k \in 1..Len(models) :
                  r_tournament.v[k] = TournamentEntry(models[k], ModelStats(sub, k))

\* of three rankers over two labels, one ranked one label only (rejected),
\* one answered nothing and one gave a ranking; both tables are computed
C14_Witness ==
    /\ AggregateDone /\ TournamentDone
    /\ Len(r_l2m) = 2
    /\ Len(r_stage2) = 3
    /\ Len(Voters) = 1
    /\ \E i \in 1..3 : r_stage2[i].parsed_ranking = <<>> /\ Truthy(r_stage2[i].ranking)
    /\ \E i \in 1..3 : ~Truthy(r_stage2[i].ranking)
    /\ Len(r_aggregate.v) = 2

\* C15: every model with a recorded position has a row whose
\* rankings_count is the number of times its label appears in the parsed
\* rankings and whose average_rank is the sum of those 1-based positions
\* divided by that number, to the nearest hundredth; [A, B] and [B, A]
\* give both models 1.5.
C15_AverageRank ==
    AggregateDone =>
        /\ \A x \in 1..Len(r_l2m) :
              LET count == Appearances(r_l2m[x].k)
                  total == PositionSum(r_l2m[x].k)
              IN  count > 0 =>
                    \E k \in 1..Len(r_aggregate.v) :
                        /\ r_aggregate.v[k].model = r_l2m[x].v
                        /\ r_aggregate.v[k].rankings_count = count
                        /\ 2 * Abs(100 * total - r_aggregate.v[k].average_rank * count)
                              <= count
        /\ SplitVote =>
              /\ Len(r_aggregate.v) = 2
              /\ r_aggregate.v[1].average_rank = 150
              /\ r_aggregate.v[2].average_rank = 150

\* three rankers gave a model the positions 1, 2 and 2: its average is 1.67
C15_Witness ==
    /\ AggregateDone
    /\ \E k \in 1..Len(r_aggregate.v) :
          /\ r_aggregate.v[k].rankings_count = 3
          /\ PositionSum(LabelOf(r_aggregate.v[k].model)) = 5
          /\ r_aggregate.v[k].average_rank = 167

\* C16: the mean-position table is in non-decreasing order of average_rank
\* and its rows are exactly the models with at least one recorded position,
\* one row each.
C16_AggregateSorted ==
    AggregateDone =>
        /\ \A k \in 1..(Len(r_aggregate.v) - 1) :
              r_aggregate.v[k].average_rank <= r_aggregate.v[k + 1].average_rank
        /\ {r_aggregate.v[k].model : k \in 1..Len(r_aggregate.v)}
              = {m \in DictValues(r_l2m) : Appearances(LabelOf(m)) > 0}
        /\ Len(r_aggregate.v)
              = Cardinality({m \in DictValues(r_l2m) : Appearances(LabelOf(m)) > 0})

\* the model ranked first by the first ranker is not the first row of a
\* table of three rows with three different averages
C16_Witness ==
    /\ AggregateDone
    /\ Len(r_aggregate.v) = 3
    /\ Len(Voters) >= 2
    /\ r_aggregate.v[1].average_rank < r_aggregate.v[2].average_rank
    /\ r_aggregate.v[2].average_rank < r_aggregate.v[3].average_rank
    /\ LabelOf(r_aggregate.v[1].model) # Voters[1].parsed_ranking[1]

\* C17: the tournament table has exactly one row for each model in the
\* value set of label_to_model, and a model no parsed ranking mentions has
\* wins = losses = ties = 0, total_matchups = 0 and win_percentage = 0.
C17_TournamentUniverse ==
    TournamentDone =>
        /\ Len(r_tournament.v) = Cardinality(DictValues(r_l2m))
        /\ {r_tournament.v[k].model : k \in 1..Len(r_tournament.v)} = DictValues(r_l2m)
        /\ \A k \in 1..Len(r_tournament.v) :
              Appearances(LabelOf(r_tournament.v[k].model)) = 0 =>
                /\ r_tournament.v[k].wins = 0
                /\ r_tournament.v[k].losses = 0
                /\ r_tournament.v[k].ties = 0
                /\ r_tournament.v[k].total_matchups = 0
                /\ r_tournament.v[k].win_percentage = 0

\* three models were shown, two rankers answered and neither ranking could
\* be parsed: the table still has the three models
C17_Witness ==
    /\ TournamentDone
    /\ Len(r_l2m) = 3
    /\ Len(r_stage2) = 2
    /\ Voters = <<>>
    /\ Len(r_tournament.v) = 3
    /\ \A k \in 1..3 : r_tournament.v[k].total_matchups = 0

\* C18: a model's wins are the models it was placed before by strictly
\* more rankers than placed it after, its losses the models for which it is
\* the other way round, its ties the models with an equal, non-zero split;
\* a pair no ranking contains adds nothing. [A, B] against [B, A] gives
\* both models win_percentage 0.5.
C18_PairwiseMatches ==
    TournamentDone =>
        /\ LET before == PreferenceTable
           IN  \A k \in 1..Len(r_tournament.v) :
                 LET m == EntryOf(r_tournament.v[k].model)
                     others == (1..Len(r_l2m)) \ {m}
                 IN  /\ r_tournament.v[k].wins
                           = Cardinality({o \in others : before[m][o] > before[o][m]})
                     /\ r_tournament.v[k].losses
                           = Cardinality({o \in others : before[o][m] > before[m][o]})
                     /\ r_tournament.v[k].ties
                           = Cardinality({o \in others :
                                 /\ before[o][m] = before[m][o]
                                 /\ (before[m][o] > 0 \/ before[o][m] > 0)})
        /\ SplitVote =>
              \A k \in 1..Len(r_tournament.v) :
                  /\ r_tournament.v[k].ties = 1
                  /\ r_tournament.v[k].win_percentage = 500

\* the split vote has been counted: one tie each, 0.5 each
C18_Witness ==
    /\ TournamentDone
    /\ SplitVote
    /\ Len(r_tournament.v) = 2
    /\ r_tournament.v[1].ties = 1
    /\ r_tournament.v[2].win_percentage = 500

\* C19: in every row total_matchups = wins + losses + ties, and
\* win_percentage is (wins + ties/2) / total_matchups to the nearest
\* thousandth, 0 when there was no matchup; it lies between 0 and 1.
C19_WinPercentage ==
    TournamentDone =>
        \A k \in 1..Len(r_tournament.v) :
            LET row == r_tournament.v[k]
            IN  /\ row.total_matchups = row.wins + row.losses + row.ties
                /\ row.total_matchups = 0 => row.win_percentage = 0
                /\ row.total_matchups > 0 =>
                      2 * Abs(1000 * (2 * row.wins + row.ties)
                                - row.win_percentage * 2 * row.total_matchups)
                        <= 2 * row.total_matchups
                /\ row.win_percentage >= 0
                /\ row.win_percentage <= 1000

\* a model with two wins and a tie in three matchups: 0.833
C19_Witness ==
    /\ TournamentDone
    /\ \E k \in 1..Len(r_tournament.v) :
          /\ r_tournament.v[k].wins = 2
          /\ r_tournament.v[k].ties = 1
          /\ r_tournament.v[k].total_matchups = 3
          /\ r_tournament.v[k].win_percentage = 833

\* C20: of two adjacent rows of the tournament table the first has the
\* higher win_percentage, or the same and no more losses.
C20_TournamentSorted ==
    TournamentDone =>
        \A k \in 1..(Len(r_tournament.v) - 1) :
            \/ r_tournament.v[k].win_percentage > r_tournament.v[k + 1].win_percentage
            \/ /\ r_tournament.v[k].win_percentage = r_tournament.v[k + 1].win_percentage
               /\ r_tournament.v[k].losses <= r_tournament.v[k + 1].losses

\* two adjacent rows with the same win_percentage and different losses
C20_Witness ==
    /\ TournamentDone
    /\ \E k \in 1..(Len(r_tournament.v) - 1) :
          /\ r_tournament.v[k].win_percentage = r_tournament.v[k + 1].win_percentage
          /\ r_tournament.v[k].losses < r_tournament.v[k + 1].losses

\* the labels, in the order of label_to_model
ShownLabels == DictKeys(r_l2m)

\* three rankers over three labels: [A, B, C], [A, C, B] and [B, A, C]
DecisiveVote ==
    /\ Len(r_l2m) = 3
    /\ Len(r_stage2) = 3
    /\ r_stage2[1].parsed_ranking = ShownLabels
    /\ r_stage2[2].parsed_ranking = <<ShownLabels[1], ShownLabels[3], ShownLabels[2]>>
    /\ r_stage2[3].parsed_ranking = <<ShownLabels[2], ShownLabels[1], ShownLabels[3]>>

\* C21: a model that, against every other model of label_to_model (there
\* being at least one), is placed before it by strictly more rankers than
\* place it after, has win_percentage 1.0 and is the first row of the
\* tournament table.
C21_DecisiveWinner ==
    TournamentDone =>
        LET before == PreferenceTable
        IN  \A m \in 1..Len(r_l2m) :
                (/\ Len(r_l2m) >= 2
                 /\ \A o \in (1..Len(r_l2m)) \ {m} : before[m][o] > before[o][m])
                    => /\ r_tournament.v[1].model = r_l2m[m].v
                       /\ r_tournament.v[1].win_percentage = 1000

\* A beats B in 2 of 3 rankings and C in 3 of 3, and is the first row
C21_Witness ==
    /\ TournamentDone
    /\ DecisiveVote
    /\ r_tournament.v[1].model = r_l2m[1].v
    /\ r_tournament.v[1].win_percentage = 1000
    /\ r_tournament.v[1].wins = 2

(***************************************************************************)
(* Properties of stage 2 and stage 3 of run_full_council                   *)
(***************************************************************************)
\* the stage-2 fan-out has come back
Stage2Answered == stage2_responses # <<>>

\* C22: the stage-2 fan-out goes to the whole council list with the one
\* ranking prompt, and once it has come back every council model is in
\* exactly one list: a model that answered has one Stage2Result (its text,
\* and a parsed ranking that is empty or orders every label) and no stage-2
\* error; a model that failed has one stage-2 error and no Stage2Result.
C22_Stage2Partition ==
    /\ pc = "stage2" =>
          /\ fo_models = council_models
          /\ fo_messages = <<UserMessage(RankingPrompt(CurrentQuery, stage1_results))>>
    /\ Stage2Answered =>
          /\ DictKeySet(stage2_responses) = SeqToSet(council_models)
          /\ Len(stage2_results) + Len(stage2_errors) = Len(stage2_responses)
          /\ \A m \in SeqToSet(council_models) :
                IF DictAt(stage2_responses, m).tag = "success"
                THEN /\ Count(stage2_errors, LAMBDA e : e.model = m) = 0
                     /\ Count(stage2_results, LAMBDA r : r.model = m) = 1
                     /\ \A k \in 1..Len(stage2_results) :
                           stage2_results[k].model = m =>
                               /\ stage2_results[k].ranking
                                     = DictAt(stage2_responses, m).content
                               /\ \/ stage2_results[k].parsed_ranking = <<>>
                                  \/ SeqToSet(stage2_results[k].parsed_ranking)
                                        = DictKeySet(label_to_model)
                ELSE /\ Count(stage2_results, LAMBDA r : r.model = m) = 0
                     /\ Count(stage2_errors, LAMBDA e : e.model = m) = 1

\* the chairman call has returned a Failure
ChairmanFailed == stage3_response # NoResult /\ stage3_response.tag = "error"

\* C23: when the chairman call returns a Failure the run still returns:
\* the stage-3 result names the chairman, its text is "Error: " followed by
\* the message of the error, its error field is the typed error, the
\* stage-3 error list holds that error alone, and the stage-1 and stage-2
\* results are returned as collected.
C23_ChairmanFailure ==
    ChairmanFailed =>
        /\ pc = "returned"
        /\ ret.tag = "returned"
        /\ ret.stage3 = [model |-> chairman_model,
                         response |-> JStr(FmtStr("Error: ", stage3_response.message)),
                         error |-> to_dict(stage3_response)]
        /\ ret.stage3.error.error_type = stage3_response.error_type
        /\ ret.metadata.errors # JNull
        /\ ret.metadata.errors.stage3 = <<to_dict(stage3_response)>>
        /\ ret.stage1 = stage1_results
        /\ ret.stage2 = stage2_results
        /\ ret.stage1 # <<>>

\* the chairman timed out after one ranker voted, and the run has returned
C23_Witness ==
    /\ pc = "returned"
    /\ ChairmanFailed
    /\ stage3_response.error_type = "timeout"
    /\ ret.stage3.error.error_type = "timeout"
    /\ Len(ret.stage2) = 1
    /\ ret.stage2[1].parsed_ranking # <<>>

\* a run over a non-empty history in which every call made was answered by
\* a Success
RanClean ==
    /\ messages # <<>>
    /\ \A k \in 1..Len(stage1_responses) : stage1_responses[k].v.tag = "success"
    /\ \A k \in 1..Len(stage2_responses) : stage2_responses[k].v.tag = "success"
    /\ stage3_response # NoResult
    /\ stage3_response.tag = "success"

\* C24: in what run_full_council returns, metadata["errors"] is None
\* exactly when no stage produced an error, and when it is not None at
\* least one of its three lists is non-empty.
C24_ErrorsOnlyIfAny ==
    pc = "returned" =>
        /\ RanClean <=> ret.metadata.errors = JNull
        /\ ret.metadata.errors # JNull =>
              \/ ret.metadata.errors.stage1 # <<>>
              \/ ret.metadata.errors.stage2 # <<>>
              \/ ret.metadata.errors.stage3 # <<>>

\* a run of two models without any failure has returned errors None
C24_Witness ==
    /\ pc = "returned"
    /\ RanClean
    /\ Len(ret.stage1) = 2
    /\ Len(ret.stage2) = 2
    /\ ret.metadata.errors = JNull

(***************************************************************************)
(* Properties of _summarize_errors                                         *)
(***************************************************************************)
\* how often a text occurs in another
Occurrences(text, part) ==
    Cardinality({i \in 1..(Len(text) - Len(part) + 1) :
                    SubSeq(text, i, i + Len(part) - 1) = part})

\* the errors of a kind among the arguments
KindCount(kind) == Cardinality({i \in 1..Len(s_errors) : s_errors[i].error_type = kind})

\* the words that tell the fragment of a kind from the others
KindMark(kind) ==
    CASE kind = "auth" -> "API key issue"
      [] kind = "payment" -> "Payment required"
      [] kind = "rate_limit" -> " model(s) rate limited"
      [] kind = "not_found" -> "Model(s) not found: "
      [] kind = "timeout" -> " model(s) timed out"
      [] kind = "server" -> "OpenRouter server error"

SummarizedKinds == {"auth", "payment", "rate_limit", "not_found", "timeout", "server"}

\* the models of the not_found errors, in the order of the arguments
NotFoundNames ==
    LET missing == SelectSeq(s_errors, LAMBDA e : e.error_type = "not_found")
    IN  [i \in 1..Len(missing) |-> ModelName(missing[i].model)]

\* C25: the summary has one fragment for each of the kinds auth, payment,
\* rate_limit, not_found, timeout and server that some error has, and none
\* for a kind no error has, whatever the number of errors of the kind; the
\* rate_limit and timeout fragments start with that number, the not_found
\* fragment lists the models, and between two fragments stands "; ".
C25_GroupedSummary ==
    s_summary # NoResult =>
        LET text == s_summary.v
            present == {kind \in SummarizedKinds : KindCount(kind) > 0}
        IN  /\ \A kind \in SummarizedKinds :
                  Occurrences(text, KindMark(kind)) = IF kind \in present THEN 1 ELSE 0
            /\ \A kind \in {"rate_limit", "timeout"} :
                  kind \in present =>
                      Occurrences(text, ToString(KindCount(kind)) \o KindMark(kind)) = 1
            /\ "not_found" \in present =>
                  Occurrences(text, KindMark("not_found") \o JoinWith(", ", NotFoundNames)) = 1
            /\ present # {} =>
                  /\ Occurrences(text, "; ") = Cardinality(present) - 1
                  /\ SubSeq(text, 1, 2) # "; "
                  /\ SubSeq(text, Len(text) - 1, Len(text)) # "; "

\* two rate-limited models and one unknown model give two fragments
C25_Witness ==
    /\ Len(s_errors) = 3
    /\ s_errors[1].error_type = "rate_limit"
    /\ s_errors[2].error_type = "not_found"
    /\ s_errors[3].error_type = "rate_limit"
    /\ s_summary = Returned("2 model(s) rate limited; Model(s) not found: a:online")

(***************************************************************************)
(* Properties of apply_online_variant and get_effective_models             *)
(***************************************************************************)
\* the text ends with the web-search suffix
EndsOnline(text) ==
    /\ Len(text) >= Len(OnlineSuffix)
    /\ SubSeq(text, Len(text) - Len(OnlineSuffix) + 1, Len(text)) = OnlineSuffix

\* C29: applying apply_online_variant to its own result changes nothing;
\* an identifier that ends with ":online" and the empty identifier are
\* returned as they are, any other with ":online" added at the end.
C29_OnlineIdempotent ==
    /\ o_twice # NoResult => o_twice.v = o_once.v
    /\ o_once # NoResult =>
          /\ EndsOnline(ModelName(o_model)) => o_once.v = o_model
          /\ ModelName(o_model) = "" => o_once.v = o_model
          /\ (ModelName(o_model) # "" /\ ~EndsOnline(ModelName(o_model))) =>
                ModelName(o_once.v) = ModelName(o_model) \o ":online"

\* "a" became "a:online" and stayed "a:online" the second time
C29_Witness ==
    /\ o_model = ModelA
    /\ o_once = Returned(ModelAOnline)
    /\ o_twice = Returned(ModelAOnline)

\* the identifier ends with the suffix and has it nowhere else
SuffixedOnce(model) ==
    /\ model # <<>>
    /\ model[Len(model)] = OnlineSuffix
    /\ \A i \in 1..(Len(model) - 1) : model[i] # OnlineSuffix

\* the effective models have been computed
RunStarted == pc \notin {"idle", "start"} /\ messages # <<>>

\* C30: every call run_full_council issues goes to a model of the
\* effective council list (stages 1 and 2) or to the effective chairman
\* (stage 3); with web search enabled each of these has the suffix
\* ":online" once, at its end; with web search disabled they are the list
\* and the chairman passed in.
C30_EffectiveModels ==
    RunStarted =>
        /\ \A i \in 1..Len(log) :
              log[i].model \in (IF log[i].stage = 3 THEN {chairman_model}
                                 ELSE SeqToSet(council_models))
        /\ in_web =>
              /\ Len(council_models) = Len(in_council)
              /\ \A i \in 1..Len(council_models) : SuffixedOnce(council_models[i])
              /\ SuffixedOnce(chairman_model)
        /\ ~in_web =>
              /\ council_models = in_council
              /\ chairman_model = in_chairman

\* web search is on, "b" and "a:online" were passed in with chairman "a",
\* and all five calls have been made
C30_Witness ==
    /\ pc = "returned"
    /\ in_web
    /\ in_council = <<ModelB, ModelAOnline>>
    /\ in_chairman = ModelA
    /\ Len(log) = 5
    /\ log[1].model = <<"b", ":online">>
    /\ log[4].model = ModelAOnline
    /\ log[5].model = ModelAOnline

(***************************************************************************)
(* Properties of the event stream                                          *)
(***************************************************************************)
EventTypes == [k \in 1..Len(events) |-> events[k].type]

IsPrefix(short, long) ==
    /\ Len(short) <= Len(long)
    /\ SubSeq(long, 1, Len(short)) = short

StreamDone == pc = "done"

\* the lifecycle of a complete run, without and with a title
Lifecycle ==
    <<"stage1_start", "stage1_complete", "stage2_start", "stage2_complete",
      "stage3_start", "stage3_complete", "complete">>

LifecycleWithTitle ==
    <<"stage1_start", "stage1_complete", "stage2_start", "stage2_complete",
      "stage3_start", "stage3_complete", "title_complete", "complete">>

\* C26: once stage 1 of a streamed run has a success, the events yielded
\* are at every moment the beginning of stage1_start, stage1_complete,
\* stage2_start, stage2_complete, stage3_start, stage3_complete, (maybe
\* title_complete,) complete, and when the stream has ended they are all
\* of them.
C26_StreamLifecycle ==
    stage1_results # <<>> =>
        /\ IsPrefix(EventTypes, Lifecycle) \/ IsPrefix(EventTypes, LifecycleWithTitle)
        /\ StreamDone => EventTypes \in {Lifecycle, LifecycleWithTitle}

\* stage 1 of the streamed run has been collected and no model answered
Stage1AllFailed ==
    /\ stage1_responses # <<>>
    /\ \A k \in 1..Len(stage1_responses) : stage1_responses[k].v.tag = "error"

\* C27: when no stage-1 call of a streamed run succeeded, the stream has
\* ended and holds stage1_start, stage1_complete and the error event "All
\* models failed to respond", nothing else, and no stage-2 or chairman
\* call was issued.
C27_StreamAllFailed ==
    Stage1AllFailed =>
        /\ StreamDone
        /\ EventTypes = <<"stage1_start", "stage1_complete", "error">>
        /\ events[3].message = "All models failed to respond. Please try again."
        /\ StageCalls(2) = {}
        /\ StageCalls(3) = {}

\* both models of a new conversation timed out and the stream has ended
C27_Witness ==
    /\ StreamDone
    /\ Len(stage1_responses) = 2
    /\ Stage1AllFailed
    /\ Len(events) = 3
    /\ events[2].errors = JArr(stage1_errors)
    /\ events[3].type = "error"
    /\ title_task = "cancelled"

\* C28: whatever exception the generator caught, the stream has ended and
\* its last event is the one error event of the stream, which has the same
\* type and the same fixed message, and nothing else, for every exception.
C28_GenericError ==
    caught # "none" =>
        /\ StreamDone
        /\ events[Len(events)]
              = [type |-> "error",
                 message |-> "An unexpected error occurred. Please try again."]
        /\ Count(events, LAMBDA e : e.type = "error") = 1

\* the TypeError of the stage-3 call has been caught after five events
C28_Witness ==
    /\ caught = "TypeError"
    /\ Len(events) = 6
    /\ events[5].type = "stage3_start"
    /\ events[6].type = "error"

(***************************************************************************)
(* Properties of the catalog cache                                         *)
(***************************************************************************)
\* the tasks whose upstream fetch is in flight
Fetching == {c \in Callers : m_calls[c].pc = "fetching"}

\* C31: at no time are two upstream fetches in flight; once a fetch has
\* succeeded, no call without force_refresh issues another one until the
\* cache has gone stale again (more than CACHE_TTL_SECONDS after that
\* fetch ended), so calls that arrive together on a stale cache share one
\* successful fetch; and every such call that returns hands back the cache
\* as refreshed after its arrival.
C31_CoalescedRefresh ==
    /\ Cardinality(Fetching) <= 1
    /\ Cardinality({k \in 1..Len(m_fetches) : m_fetches[k].state = "flight"}) <= 1
    /\ \A i, j \in 1..Len(m_fetches) :
          (i < j /\ m_fetches[i].state = "ok" /\ ~m_fetches[j].forced)
             => m_fetches[j].start - m_fetches[i].end > CACHE_TTL_SECONDS
    /\ \A c \in Callers :
          (m_calls[c].pc = "returned" /\ ~m_calls[c].force /\ m_calls[c].stale)
             => /\ m_calls[c].ret.v.last_updated # Never
                /\ m_calls[c].ret.v.last_updated >= m_calls[c].arrived

\* two calls without force_refresh arrived at the same time on a cache
\* never filled, one waited for the lock, one fetch was issued, it
\* succeeded, and both calls returned the cache it filled
C31_Witness ==
    /\ \A c \in 1..2 :
          /\ m_calls[c].pc = "returned"
          /\ ~m_calls[c].force
          /\ m_calls[c].stale
          /\ m_calls[c].arrived = 0
          /\ m_calls[c].ret = Returned(m_cache)
    /\ Len(m_fetches) = 1
    /\ m_fetches[1].state = "ok"
    /\ m_fetches[1].caller = 1
    /\ m_cache.last_updated = ClockStep
    /\ m_cache.models # <<>>

\* C32: a call without force_refresh that arrived on a non-stale cache is
\* never waiting for the lock while the cache is still non-stale and an
\* upstream fetch is in flight.
C32_FreshReadNeverWaits ==
    \A c \in Callers :
        ~ /\ m_calls[c].pc = "waiting"
          /\ ~m_calls[c].force
          /\ ~m_calls[c].stale
          /\ ~is_stale(m_cache, m_now)
          /\ Fetching # {}

\* C40: when the upstream fetch fails, the calling task gets the exception,
\* the cache (contents and last_updated) is as it was and the lock is no
\* longer held; and a call made while the lock is free and the cache stale
\* goes on to fetch.
C40_FailedFetch ==
    [][/\ \A c \in Callers :
             (m_calls[c].pc = "fetching" /\ m_calls'[c].pc = "raised")
                => /\ m_calls'[c].ret.exc \in FetchErrors
                   /\ m_cache' = m_cache
                   /\ m_lock'.holder = 0
       /\ \A c \in Callers :
             (/\ m_calls[c].pc = "idle" /\ m_calls'[c].pc # "idle"
              /\ m_lock = FreeLock
              /\ is_stale(m_cache, m_now))
                => m_calls'[c].pc = "fetching"]_vars

\* the first task's fetch failed on a cache never filled; the second task
\* called afterwards, was not kept waiting and has its own fetch in flight
C40_Witness ==
    /\ m_calls[1].pc = "raised"
    /\ m_calls[1].ret.exc \in FetchErrors
    /\ m_cache = EmptyCache
    /\ Len(m_fetches) = 2
    /\ m_fetches[1].state = "failed"
    /\ m_fetches[2].state = "flight"
    /\ m_fetches[2].caller = 2
    /\ m_calls[2].pc = "fetching"
    /\ m_calls[2].arrived >= m_fetches[1].end
    /\ m_fetches[2].start = m_calls[2].arrived
    /\ m_lock.holder = 2

(***************************************************************************)
(* Properties of transcribe_audio                                          *)
(***************************************************************************)
\* C33: an attempt is followed by another one only when it failed with a
\* transient error (connection, timeout, rate limit, server error).
C33_RetryOnlyTransient ==
    \A i \in 1..(Len(t_attempts) - 1) : t_attempts[i].exc \in GroqTransient

\* C36: at most 4 attempts are made; an attempt that succeeds is the last
\* one and its text is returned; when the fourth attempt fails its
\* exception is what the caller gets; before that a failed attempt leaves
\* the call unfinished.
C36_AtMostFourAttempts ==
    /\ Len(t_attempts) <= 4
    /\ \A i \in 1..(Len(t_attempts) - 1) : t_attempts[i].exc # "none"
    /\ t_result # NoResult
          => /\ t_attempts # <<>>
             /\ t_result = t_attempts[Len(t_attempts)]
             /\ t_result.exc # "none" => Len(t_attempts) = 4
    /\ t_result = NoResult
          => /\ Len(t_attempts) < 4
             /\ t_attempts # <<>> => t_attempts[Len(t_attempts)].exc # "none"

\* four failed attempts, the last two with different exceptions, and the
\* caller gets the last one
C36_Witness ==
    /\ Len(t_attempts) = 4
    /\ t_attempts[3] = Raised("APIConnectionError")
    /\ t_attempts[4] = Raised("RateLimitError")
    /\ t_result = Raised("RateLimitError")

(***************************************************************************)
(* Properties of the value query_model returns                             *)
(***************************************************************************)
\* C34: a Success returned by query_model has a text as its content, never
\* None.
C34_SuccessHasText ==
    (q_result # NoResult /\ q_result.tag = "success") => q_result.content.ty = "str"

(***************************************************************************)
(* Properties of the order and the keys of the stage-1 results             *)
(***************************************************************************)
\* a list without its repeats, each element where it first occurs
FirstOccurrences(models) ==
    LET first == {i \in 1..Len(models) : \A j \in 1..(i - 1) : models[j] # models[i]}
    IN  [p \in 1..Cardinality(first) |->
            models[CHOOSE i \in first : Cardinality({j \in first : j < i}) = p - 1]]

\* what the call for model m came to (for a model listed twice, the call
\* of its last occurrence)
OutcomeOf(models, tasks, m) ==
    tasks[CHOOSE i \in 1..Len(models) :
             models[i] = m /\ \A j \in (i + 1)..Len(models) : models[j] # m].result

\* the council list in its own order, cut down to the models that succeeded
SucceededInListOrder(models, tasks) ==
    SelectSeq(FirstOccurrences(models),
              LAMBDA m : OutcomeOf(models, tasks, m).tag = "success")

ModelsOf(results) == [i \in 1..Len(results) |-> results[i].model]

\* C35: whatever order the stage-1 calls completed in, the step that
\* partitions stage 1 leaves stage1_results in the order of the council
\* list cut down to the successful models, and label_to_model maps
\* "Response A", "Response B", ... to those models in that order: both are
\* fixed by the list and the per-model outcomes alone.
C35_LabelsIgnoreCompletionOrder ==
    [][(pc = "stage1" /\ fo_pc = "returned" /\ pc' # "stage1")
          => LET expected == SucceededInListOrder(fo_models, fo_tasks)
             IN  /\ fo_models = council_models
                 /\ ModelsOf(stage1_results') = expected
                 /\ pc' = "stage2"
                       => /\ Len(label_to_model') = Len(expected)
                          /\ \A i \in 1..Len(expected) :
                                /\ label_to_model'[i].k = FirstLabels[i]
                                /\ label_to_model'[i].v = expected[i]]_vars

\* the stage-1 fan-out of two distinct models has returned, the second
\* call having completed first, and the results about to be partitioned
\* list the two models in the order of the council list
C35_Witness ==
    /\ pc = "stage1"
    /\ fo_pc = "returned"
    /\ Len(fo_models) = 2
    /\ fo_models[1] # fo_models[2]
    /\ fo_order = <<2, 1>>
    /\ ModelsOf(Stage1Results(fo_result)) = fo_models
    /\ DictKeys(LabelToModel(Stage1Results(fo_result))) = SubSeq(FirstLabels, 1, 2)

\* C37: from stage 2 on no model occurs twice among the stage-1 results or
\* among the values of label_to_model, and the ResponseSet of stage 1 has
\* one entry per distinct model of the council list.
C37_LabelToModelInjective ==
    (Stage1Collected /\ pc # "raised" /\ stage1_results # <<>>) =>
        /\ IsDistinct(ModelsOf(stage1_results))
        /\ IsDistinct([i \in 1..Len(label_to_model) |-> label_to_model[i].v])
        /\ Len(stage1_responses) = Cardinality(SeqToSet(council_models))

\* the council list names one model twice, its calls succeeded, and the
\* one stage-1 result has the one label
C37_Witness ==
    /\ pc = "stage2"
    /\ Len(council_models) = 2
    /\ council_models[1] = council_models[2]
    /\ Len(stage1_responses) = 1
    /\ Len(stage1_results) = 1
    /\ Len(label_to_model) = 1
    /\ label_to_model[1].v = council_models[1]

(***************************************************************************)
(* Conservation of matches in the tournament table                         *)
(***************************************************************************)
TableColumn(field) == [k \in 1..Len(r_tournament.v) |-> r_tournament.v[k][field]]

\* C38: over the rows of the tournament table the wins add up to the same
\* number as the losses, the ties add up to an even number, and no row has
\* more matchups than there are other models.
C38_MatchesConserved ==
    TournamentDone =>
        /\ Sum(TableColumn("wins")) = Sum(TableColumn("losses"))
        /\ Sum(TableColumn("ties")) % 2 = 0
        /\ \A k \in 1..Len(r_tournament.v) :
              /\ r_tournament.v[k].total_matchups
                    = r_tournament.v[k].wins + r_tournament.v[k].losses
                        + r_tournament.v[k].ties
              /\ r_tournament.v[k].total_matchups <= Cardinality(DictValues(r_l2m)) - 1

\* [A, B, C] against [B, A, C]: A and B tie, both beat C, and every model
\* met both others
C38_Witness ==
    /\ TournamentDone
    /\ Len(r_l2m) = 3
    /\ Sum(TableColumn("wins")) = 2
    /\ Sum(TableColumn("losses")) = 2
    /\ Sum(TableColumn("ties")) = 2
    /\ \A k \in 1..3 : r_tournament.v[k].total_matchups = 2

(***************************************************************************)
(* Properties of what the streamed run writes to the conversation          *)
(***************************************************************************)
\* the messages of the given role this run has written
Written(role) ==
    {k \in 1..Len(stored.messages) :
        stored.messages[k].role = role /\ stored.messages[k].ours}

\* C39: when stage1_start is yielded the user message of the run is already
\* in the conversation; when complete is yielded so is the assistant
\* message of the run; and a stream that has ended with an error event has
\* written no assistant message, so that the conversation, if it still
\* exists, ends with the user message of the run.
C39_StreamPersistence ==
    /\ \A i \in 1..Len(events) :
          events[i].type = "stage1_start"
             => \E k \in Written("user") : stored.messages[k].at < i
    /\ \A i \in 1..Len(events) :
          events[i].type = "complete"
             => \E k \in Written("assistant") : stored.messages[k].at < i
    /\ (StreamDone /\ events[Len(events)].type = "error")
          => /\ Written("assistant") = {}
             /\ stored.exists
                   => stored.messages[Len(stored.messages)]
                         = StoredMessage("user", TRUE, 0)

\* a run on a conversation with an earlier exchange got past stage1_start
\* and ended with an error event: the user message was written before the
\* first event and is the last of the three messages of the conversation
C39_Witness ==
    /\ StreamDone
    /\ Len(events) >= 3
    /\ events[1].type = "stage1_start"
    /\ events[Len(events)].type = "error"
    /\ Len(stored.messages) = 3
    /\ stored.messages[2].role = "assistant"
    /\ stored.messages[3] = StoredMessage("user", TRUE, 0)

====
